---------------------------- MODULE Spec2Model ----------------------------
(***************************************************************************)
(* A model of the PSP Skyvern adapter                                      *)
(* (packages/skyvern/psp/skyvern/adapter.py): the cookie codec, the        *)
(* capture/restore protocol of a browser session state, and the replay of  *)
(* a recorded event trace against a browser driver; and of the session     *)
(* cache of PSPClient (packages/sdk-python/psp_sdk/client.py).             *)
(*                                                                         *)
(* Python values are modelled structurally: a dict is a function whose     *)
(* DOMAIN is its key set (a missing key is a key outside the DOMAIN), a    *)
(* list is a sequence, a str that the code takes apart (an event target)   *)
(* is a sequence of one-character strings.                                 *)
(***************************************************************************)
EXTENDS Integers, Sequences, FiniteSets, TLC

VARIABLES
    \* ---- cookie codec harness
    ckIn,               \* the driver cookie handed to _normalize_cookies
    ckNorm,             \* the list _normalize_cookies returned
    ckOut,              \* what _reverse_cookie_mapping returned for ckNorm[1]
    ckPc                \* "in" -> "normalized" -> "done"

ckVars == <<ckIn, ckNorm, ckOut, ckPc>>

VARIABLES
    \* ---- screenshot comparison harness
    cmpReference,       \* the reference bytes handed to _compare_screenshots
    cmpCurrent,         \* the current bytes handed to _compare_screenshots
    cmpResult,          \* what _compare_screenshots returned
    cmpPc               \* "in" -> "done"

cmpVars == <<cmpReference, cmpCurrent, cmpResult, cmpPc>>

VARIABLES
    \* ---- the browser page behind the driver
    pageId,             \* which page the driver drives (a fresh page gets a new id)
    pageUrl,            \* the page's current URL
    pageCookies,        \* the cookie jar, as get_cookies() lists it
    pageLocal,          \* window.localStorage of every origin
    pageSession,        \* window.sessionStorage of every origin
    redirects,          \* where the web sends a navigation to each URL
    clock,              \* the wall clock, in ms
    calls,              \* the driver calls of the operation in progress or last run
    \* ---- the adapter
    connected,          \* self.browser is set
    visualComparison,   \* self.visual_comparison
    screenshotOnCapture,\* self.screenshot_on_capture
    outcome,            \* how the last adapter operation ended
    ops,                \* how many adapter operations the caller has made
    \* ---- the caller
    snap,               \* the session state the caller holds (a dict)
    captured            \* the page as it was when snap was captured

VARIABLES
    \* ---- play_recording
    events,             \* the trace handed to play_recording
    speed,              \* options["speed"]
    evIdx,              \* the position of the loop over events
    playPc,             \* "idle" -> "loop" -> "returned", or "raised"
    delays,             \* the sleeps performed, in ms
    warnings            \* the exceptions the loop caught, by event position

playVars == <<events, speed, evIdx, playPc, delays, warnings>>

VARIABLES
    \* ---- recording
    recordingEvents,    \* self._recording_events
    recordingStartTime, \* self._recording_start_time
    pspEvents,          \* window._pspEvents of the page (its in-page buffer)
    pspStartTime,       \* window._pspStartTime of the page
    listeners,          \* how many times the page had the recording listeners added
    trail               \* what happened, in order: start_recording and
                        \* stop_recording calls that ran, and user actions

VARIABLES
    \* ---- the caller of stop_recording
    held                \* the lists stop_recording returned, as the caller holds them

recordingVars == <<recordingEvents, recordingStartTime, held>>
recorderVars == <<pspEvents, pspStartTime, listeners>>

VARIABLES
    \* ---- a second adapter, connected to a page of its own
    peer                \* the adapter and page that are not taking the step

VARIABLES
    \* ---- PSPClient (packages/sdk-python/psp_sdk/client.py)
    clientSession,      \* self.session is set
    sessions,           \* self._sessions: session id -> cached PSPSession object
    server,             \* the ids of the sessions the server has
    tasks,              \* the client calls awaiting the server's response
    clientOutcome,      \* how the last client call ended
    stale,              \* the objects a delete_session that returned True removed
    objects,            \* how many PSPSession objects were constructed
    clientOps           \* how many client calls were made

clientVars == <<clientSession, sessions, server, tasks, clientOutcome, stale, objects, clientOps>>
asideVars == <<peer, clientVars>>

pageVars == <<pageId, pageUrl, pageCookies, pageLocal, pageSession>>
adapterVars == <<connected, visualComparison, screenshotOnCapture>>

vars == <<ckVars, cmpVars, asideVars, playVars, pageVars, redirects, clock, calls, adapterVars, outcome, ops,
          snap, captured, recordingVars, recorderVars, trail>>

--------------------------------------------------------------------------
(* Python helpers *)

\* dict.get(key, default)
Get(d, k, default) == IF k \in DOMAIN d THEN d[k] ELSE default

\* key in dict
Has(d, k) == k \in DOMAIN d

\* Python's None.  A value that may be None or a number (a cookie's expires)
\* is None or a one-element tuple holding the number.
None == <<>>

\* the dict d restricted to the keys in ks
Restrict(d, ks) == [k \in (ks \cap DOMAIN d) |-> d[k]]

--------------------------------------------------------------------------
(* Cookies *)

CookieNames == {"sid", "pref"}
CookieValues == {"abc"}
CookieDomains == {"a.test", "b.test"}
CookiePaths == {"/", "/app"}
CookieExpires == {None, <<1700000000>>, <<1800000000>>}
SameSites == {"Strict", "Lax", "None"}

RequiredCookieKeys == {"name", "value"}
OptionalCookieKeys == {"domain", "path", "expires", "httpOnly", "secure", "sameSite"}

FullDriverCookies ==
    [name : CookieNames, value : CookieValues, domain : CookieDomains,
     path : CookiePaths, expires : CookieExpires, httpOnly : BOOLEAN,
     secure : BOOLEAN, sameSite : SameSites]

\* every cookie dict a driver may hand over: name and value, and any subset
\* of the other keys
DriverCookies ==
    { Restrict(c, RequiredCookieKeys \cup ks) :
        c \in FullDriverCookies, ks \in SUBSET OptionalCookieKeys }

\* _normalize_cookies with "expires" left out of the canonical cookie
NormalizeCookies_DropExpires(cookies) ==
    [i \in 1..Len(cookies) |->
        LET cookie == cookies[i] IN
        [name     |-> cookie["name"],
         value    |-> cookie["value"],
         domain   |-> Get(cookie, "domain", ""),
         path     |-> Get(cookie, "path", "/"),
         expires  |-> None,
         httpOnly |-> Get(cookie, "httpOnly", FALSE),
         secure   |-> Get(cookie, "secure", FALSE),
         sameSite |-> Get(cookie, "sameSite", "Lax")]]

\* SkyvernAdapter._normalize_cookies
NormalizeCookies(cookies) ==
    [i \in 1..Len(cookies) |->
        LET cookie == cookies[i] IN
        [name     |-> cookie["name"],
         value    |-> cookie["value"],
         domain   |-> Get(cookie, "domain", ""),
         path     |-> Get(cookie, "path", "/"),
         expires  |-> Get(cookie, "expires", None),
         httpOnly |-> Get(cookie, "httpOnly", FALSE),
         secure   |-> Get(cookie, "secure", FALSE),
         sameSite |-> Get(cookie, "sameSite", "Lax")]]

\* SkyvernAdapter._reverse_cookie_mapping
ReverseCookieMapping(cookie) ==
    [name     |-> cookie["name"],
     value    |-> cookie["value"],
     domain   |-> Get(cookie, "domain", None),
     path     |-> Get(cookie, "path", "/"),
     expires  |-> Get(cookie, "expires", None),
     httpOnly |-> Get(cookie, "httpOnly", FALSE),
     secure   |-> Get(cookie, "secure", FALSE),
     sameSite |-> Get(cookie, "sameSite", "Lax")]

--------------------------------------------------------------------------
(* The cookie codec on its own: normalize one driver cookie, then map the  *)
(* canonical cookie back.                                                  *)

CookieIdle ==
    /\ ckIn = [name |-> "sid", value |-> "abc"]
    /\ ckNorm = <<>>
    /\ ckOut = None
    /\ ckPc = "off"

CookieNormalize ==
    /\ ckPc = "in"
    /\ ckNorm' = NormalizeCookies(<<ckIn>>)
    /\ ckPc' = "normalized"
    /\ UNCHANGED <<ckIn, ckOut>>

CookieReverse ==
    /\ ckPc = "normalized"
    /\ ckOut' = ReverseCookieMapping(ckNorm[1])
    /\ ckPc' = "done"
    /\ UNCHANGED <<ckIn, ckNorm>>

restVars == <<cmpVars, asideVars, playVars, pageVars, redirects, clock, calls, adapterVars, outcome, ops,
              snap, captured, recordingVars, recorderVars, trail>>

CookieNext == (CookieNormalize \/ CookieReverse) /\ UNCHANGED restVars


--------------------------------------------------------------------------
(* C4: cookie round trip.  For every driver cookie with valid field values *)
(* (it carries name, value and domain), _reverse_cookie_mapping of its     *)
(* normalized form has the same name, domain, path, httpOnly, secure and   *)
(* sameSite (an absent path, httpOnly, secure or sameSite reads as the     *)
(* driver default "/", False, False, "Lax"), and it has an expiry exactly  *)
(* when the driver cookie has one, with the same value.                    *)

ValidDriverCookie(c) == Has(c, "domain")

HasExpiry(c) == Has(c, "expires") /\ c["expires"] # None

C4_CookieRoundTrip ==
    (ckPc = "done" /\ ValidDriverCookie(ckIn)) =>
        /\ ckOut["name"] = ckIn["name"]
        /\ ckOut["domain"] = ckIn["domain"]
        /\ ckOut["path"] = Get(ckIn, "path", "/")
        /\ ckOut["httpOnly"] = Get(ckIn, "httpOnly", FALSE)
        /\ ckOut["secure"] = Get(ckIn, "secure", FALSE)
        /\ ckOut["sameSite"] = Get(ckIn, "sameSite", "Lax")
        /\ HasExpiry(ckOut) <=> HasExpiry(ckIn)
        /\ HasExpiry(ckIn) => ckOut["expires"] = ckIn["expires"]

\* a cookie with an expiry and one without both went through the codec
C4_Witness ==
    /\ ckPc = "done"
    /\ ValidDriverCookie(ckIn)
    /\ HasExpiry(ckIn)
    /\ ~Has(ckIn, "sameSite")
    /\ ckOut["expires"] = <<1700000000>>

--------------------------------------------------------------------------
(* URLs, origins and the browser page *)

\* A URL, held as urlparse sees it: scheme, netloc (host and port), path.
Url(scheme, netloc, path) == [scheme |-> scheme, netloc |-> netloc, path |-> path]

HttpA == Url("http", "a.test", "/")
HttpsA == Url("https", "a.test", "/")
HttpsB == Url("https", "b.test", "/")

\* the URLs of the web
URLs == {HttpA, HttpsA, HttpsB}

\* where a fresh page is before any navigation
BlankUrl == Url("about", "", "blank")

\* How the web answers a navigation: as asked, with an upgrade of http to
\* https, or with a redirect of a.test to another site.
RedirectMaps ==
    { [u \in URLs |-> u],
      [u \in URLs |-> IF u = HttpA THEN HttpsA ELSE u],
      [u \in URLs |-> IF u \in {HttpA, HttpsA} THEN HttpsB ELSE u] }

\* browser.goto(url): where the page ends up
Goto(url) == IF url \in DOMAIN redirects THEN redirects[url] ELSE url

\* urlparse(url).netloc, the key the adapter files storage under
UrlNetloc(url) == url.netloc

\* The origin the browser scopes window.localStorage and
\* window.sessionStorage by: scheme, host and port.
BrowserOrigin(url) == <<url.scheme, url.netloc>>

Origins == { BrowserOrigin(u) : u \in URLs \cup {BlankUrl} }

EmptyDict == <<>>

StorageKeys == {"k"}

\* the cookies a page's jar may start with, as the driver lists them
JarCookieSid ==
    [name |-> "sid", value |-> "abc", domain |-> "a.test", path |-> "/",
     expires |-> None, httpOnly |-> TRUE, secure |-> FALSE, sameSite |-> "Strict"]
JarCookiePref ==
    [name |-> "pref", value |-> "abc", domain |-> "a.test", path |-> "/app",
     expires |-> <<1700000000>>]

MaxCookies == 2

JarCookies == {JarCookieSid, JarCookiePref}

\* the jars a page may start with: up to MaxCookies distinct cookies, in any order
InitialJars ==
    { jar \in UNION { [1..n -> JarCookies] : n \in 0..MaxCookies } :
        \A i, j \in 1..Len(jar) : i # j => jar[i] # jar[j] }

\* browser.add_cookie: the jar holds one cookie per (name, domain, path)
AddCookie(jar, c) ==
    LET same == { i \in 1..Len(jar) :
                    /\ jar[i]["name"] = c["name"]
                    /\ jar[i]["domain"] = c["domain"]
                    /\ jar[i]["path"] = c["path"] }
    IN  IF same = {} THEN Append(jar, c)
        ELSE [i \in 1..Len(jar) |-> IF i \in same THEN c ELSE jar[i]]

--------------------------------------------------------------------------
(* Screenshots and their comparison *)

\* the number of channel values of a screenshot
ImgLen == 1

ChannelValues == {0, 1, 16, 17, 128, 255}

\* the colours a page is rendered in
ScreenColours == {0, 16, 255}

\* screenshot bytes: a decodable PNG with its channel values, bytes that are
\* no image, or no bytes at all
Png(px) == <<"png", px>>
Garbage == <<"garbage">>
EmptyBytes == <<>>

Images == { Png(px) : px \in [1..ImgLen -> ChannelValues] }

\* what screenshot() may give: a page rendered in one colour, bytes that are
\* no image, or nothing
Screens ==
    { Png([i \in 1..ImgLen |-> v]) : v \in ScreenColours } \cup {Garbage, EmptyBytes}

Decodable(b) == b \in Images

\* max_mse = 255 ** 2
MaxMse == 255 * 255

\* A similarity s is held as the integer s * SimDen.
SimDen == MaxMse * ImgLen

\* a difference taken as a sum
Sub8_Sum(a, b) == (a + b) % 256

\* numpy uint8 arithmetic: ref_arr - cur_arr and (...) ** 2 wrap modulo 256
Sub8(a, b) == (a - b) % 256
Sq8(x) == (x * x) % 256

RECURSIVE SumSq(_, _, _)
SumSq(ref, cur, n) ==
    IF n = 0 THEN 0 ELSE Sq8(Sub8(ref[n], cur[n])) + SumSq(ref, cur, n - 1)

\* SkyvernAdapter._compare_screenshots: a failure to decode is caught and
\* gives 0.0
CompareScreenshots(reference, current) ==
    IF ~Decodable(reference) \/ ~Decodable(current) THEN 0
    ELSE LET sumsq == SumSq(reference[2], current[2], ImgLen)
         IN  IF sumsq = 0 THEN SimDen ELSE SimDen - sumsq

\* the comparison is not in use
CompareIdle ==
    /\ cmpReference = EmptyBytes
    /\ cmpCurrent = EmptyBytes
    /\ cmpResult = 0
    /\ cmpPc = "off"

\* a call of _compare_screenshots on its own
Compare ==
    /\ cmpPc = "in"
    /\ cmpResult' = CompareScreenshots(cmpReference, cmpCurrent)
    /\ cmpPc' = "done"
    /\ UNCHANGED <<cmpReference, cmpCurrent>>

\* the thresholds a caller passes (times SimDen): 0.0, 0.9 (the default),
\* just under 1.0, and 1.0
Thresholds == {0, (9 * SimDen) \div 10, SimDen - 1, SimDen}

--------------------------------------------------------------------------
(* capture_state *)

Call(op) == [op |-> op]

\* the storage script of capture_state: every key of both storage areas of
\* the page's origin
CaptureScriptResult ==
    [localStorage   |-> pageLocal[BrowserOrigin(pageUrl)],
     sessionStorage |-> pageSession[BrowserOrigin(pageUrl)]]

PageTitle == "title"

\* the dict capture_state builds, given what screenshot() and
\* get_vision_state() gave (None: not called, or it raised)
SessionState(url, title, cookies, storage_result, screenshot, vision, now) ==
    LET origin == UrlNetloc(url)
        local_storage_map == (origin :> Get(storage_result, "localStorage", EmptyDict))
        session_storage_map == (origin :> Get(storage_result, "sessionStorage", EmptyDict))
        normalized_cookies == NormalizeCookies(cookies)
        shotExt == IF screenshot # EmptyBytes
                   THEN ("screenshot" :> [data |-> screenshot, timestamp |-> now,
                                          format |-> "png"])
                   ELSE EmptyDict
        visionExt == IF vision # None THEN ("visionState" :> vision) ELSE EmptyDict
        extensions == shotExt @@ visionExt
        session_state ==
            [version   |-> "1.0.0",
             timestamp |-> now,
             origin  |-> origin,
             storage |-> [cookies        |-> normalized_cookies,
                          localStorage   |-> local_storage_map,
                          sessionStorage |-> session_storage_map],
             history |-> [currentUrl   |-> url,
                          entries      |-> <<[url |-> url, title |-> title,
                                             timestamp |-> now]>>,
                          currentIndex |-> 0]]
    IN  IF extensions # EmptyDict
        THEN session_state @@ ("extensions" :> extensions)
        ELSE session_state

\* an operation that goes on without a browser
NotConnected_GoesOn(op) == [op |-> op, result |-> "ok"]

\* raise RuntimeError("Not connected to a browser")
NotConnected(op) == [op |-> op, result |-> "RuntimeError: Not connected to a browser"]

\* what a driver call that may fail gives when it raises
DriverError == <<"raise">>

\* the most adapter operations a caller makes in one run
MaxOps == 3

\* a capture_state that also lets a failure of get_vision_state() through
CaptureRaises_Vision(shot, visionRes) == shot = DriverError \/ visionRes = "raise"

\* Which driver failures end capture_state: that of screenshot(), awaited
\* outside any try; that of get_vision_state() is caught.
CaptureRaises(shot, visionRes) == shot = DriverError

\* a vision state put in the extensions whenever the driver was asked for it
VisionState_Kept(visionRes) == IF visionRes = "noattr" THEN None ELSE <<"vision">>

\* what get_vision_state() leaves for extensions["visionState"]
VisionState(visionRes) == IF visionRes = "ok" THEN <<"vision">> ELSE None

\* a capture that drains each storage area with a script of its own
CaptureReads_PerArea == <<Call("get_current_url"), Call("get_title"), Call("get_cookies"), Call("evaluate"), Call("evaluate")>>

\* The driver calls capture_state makes to read the page: the URL, the title,
\* the cookies, and one evaluate of the script that drains both storage
\* areas.
CaptureReads == <<Call("get_current_url"), Call("get_title"), Call("get_cookies"), Call("evaluate")>>

\* SkyvernAdapter.capture_state.  screenshot() is called when
\* screenshot_on_capture is set and its failure propagates;
\* get_vision_state() is called when visual_comparison is set and the driver
\* has a vision_state attribute, and its failure is caught.
CaptureState ==
    /\ ops < MaxOps
    /\ ops' = ops + 1
    /\ IF ~connected
       THEN /\ outcome' = NotConnected("capture_state")
            /\ calls' = <<>>
            /\ UNCHANGED <<snap, captured>>
       ELSE \E shot \in (IF screenshotOnCapture THEN Screens \cup {DriverError}
                         ELSE {EmptyBytes}),
               visionRes \in (IF visualComparison THEN {"noattr", "raise", "ok"}
                              ELSE {"noattr"}) :
            LET reads == CaptureReads
                shotCall == IF screenshotOnCapture
                            THEN <<[op |-> "screenshot", raised |-> shot = DriverError,
                                    ret |-> shot]>>
                            ELSE <<>>
                visionCall == IF shot # DriverError /\ visionRes # "noattr"
                              THEN <<[op |-> "get_vision_state",
                                      raised |-> visionRes = "raise"]>>
                              ELSE <<>>
            IN  /\ calls' = reads \o shotCall \o visionCall
                /\ IF CaptureRaises(shot, visionRes)
                   THEN /\ outcome' = [op |-> "capture_state", result |-> "DriverError"]
                        /\ UNCHANGED <<snap, captured>>
                   ELSE /\ snap' = SessionState(pageUrl, PageTitle, pageCookies,
                                       CaptureScriptResult, shot,
                                       VisionState(visionRes), clock)
                        /\ captured' = [pageId  |-> pageId,
                                        state   |-> snap',
                                        url     |-> pageUrl,
                                        cookies |-> pageCookies,
                                        local   |-> pageLocal[BrowserOrigin(pageUrl)],
                                        session |-> pageSession[BrowserOrigin(pageUrl)]]
                        /\ outcome' = [op |-> "capture_state", result |-> "ok"]
    /\ UNCHANGED <<ckVars, cmpVars, asideVars, playVars, pageVars, redirects, clock, adapterVars,
                   recordingVars, recorderVars, trail>>

--------------------------------------------------------------------------
(* apply_state *)

\* browser.goto loads a document: the window of the document before, with
\* its in-page buffer and its listeners, is gone
Unloaded ==
    /\ pspEvents' = <<>>
    /\ pspStartTime' = 0
    /\ listeners' = 0

RECURSIVE AddCookies(_, _, _)
\* the cookie loop of apply_state: add_cookie(_reverse_cookie_mapping(cookie))
\* for cookies[i..], in order
AddCookies(jar, cookies, i) ==
    IF i > Len(cookies) THEN jar
    ELSE AddCookies(AddCookie(jar, ReverseCookieMapping(cookies[i])), cookies, i + 1)

\* the storage maps looked up under scheme://netloc instead of the netloc
RestoreOrigin_WithScheme(url) == url.scheme \o "://" \o url.netloc

\* the origin key apply_state looks the storage maps up under
RestoreOrigin(url) == UrlNetloc(url)

\* the storage script of apply_state: clear the area, then set every key
ApplyScript(area, url, map) == [area EXCEPT ![BrowserOrigin(url)] = map]

\* a gate that also refuses a similarity equal to the threshold
GateRaises_Inclusive(similarity, visual_similarity_threshold) ==
    similarity <= visual_similarity_threshold

\* the visual gate of apply_state: whether it raises
GateRaises(similarity, visual_similarity_threshold) ==
    similarity < visual_similarity_threshold

\* apply_state with the storage script evaluated before the cookies are added
ApplyCalls_StorageFirst(navigates, target, cookies, url, local_storage, session_storage, verifies, shot) ==
       (IF navigates THEN <<[op |-> "goto", url |-> target]>> ELSE <<>>)
    \o <<[op |-> "get_current_url", ret |-> url],
         [op |-> "evaluate", localStorage |-> local_storage,
          sessionStorage |-> session_storage]>>
    \o [i \in 1..Len(cookies) |->
          [op |-> "add_cookie", cookie |-> ReverseCookieMapping(cookies[i])]]
    \o <<[op |-> "goto", url |-> url]>>
    \o (IF verifies THEN <<[op |-> "screenshot", ret |-> shot]>> ELSE <<>>)

\* The driver calls of apply_state, in the order of its awaits: goto,
\* add_cookie per cookie, get_current_url, evaluate, goto, and screenshot when
\* the visual state is verified.
ApplyCalls(navigates, target, cookies, url, local_storage, session_storage, verifies, shot) ==
       (IF navigates THEN <<[op |-> "goto", url |-> target]>> ELSE <<>>)
    \o [i \in 1..Len(cookies) |->
          [op |-> "add_cookie", cookie |-> ReverseCookieMapping(cookies[i])]]
    \o <<[op |-> "get_current_url", ret |-> url],
         [op |-> "evaluate", localStorage |-> local_storage,
          sessionStorage |-> session_storage],
         [op |-> "goto", url |-> url]>>
    \o (IF verifies THEN <<[op |-> "screenshot", ret |-> shot]>> ELSE <<>>)

\* SkyvernAdapter.apply_state(state, verify_visual_state,
\* visual_similarity_threshold); shot is what screenshot() gives.
ApplyState(state, verify_visual_state, visual_similarity_threshold, shot) ==
    IF ~connected
    THEN /\ outcome' = NotConnected("apply_state")
         /\ calls' = <<>>
         /\ UNCHANGED <<pageVars, recorderVars>>
    ELSE
    LET navigates == Has(state, "history") /\ Has(state["history"], "currentUrl")
        cookies == IF Has(state, "storage") /\ Has(state["storage"], "cookies")
                   THEN state["storage"]["cookies"] ELSE <<>>
        \* url = await self.browser.get_current_url()
        url == IF navigates THEN Goto(state["history"]["currentUrl"]) ELSE pageUrl
        origin == RestoreOrigin(url)
        local_storage ==
            Get(Get(Get(state, "storage", EmptyDict), "localStorage", EmptyDict),
                origin, EmptyDict)
        session_storage ==
            Get(Get(Get(state, "storage", EmptyDict), "sessionStorage", EmptyDict),
                origin, EmptyDict)
        verifies == /\ verify_visual_state
                    /\ Has(state, "extensions")
                    /\ Has(state["extensions"], "screenshot")
        similarity == CompareScreenshots(state["extensions"]["screenshot"]["data"], shot)
        args == [op |-> "apply_state", state |-> state, page |-> pageId,
                 verify_visual_state |-> verify_visual_state]
    IN  /\ pageUrl' = Goto(url)
        /\ Unloaded
        /\ pageCookies' = AddCookies(pageCookies, cookies, 1)
        /\ pageLocal' = ApplyScript(pageLocal, url, local_storage)
        /\ pageSession' = ApplyScript(pageSession, url, session_storage)
        /\ UNCHANGED pageId
        /\ calls' = ApplyCalls(navigates,
                               IF navigates THEN state["history"]["currentUrl"]
                               ELSE pageUrl,
                               cookies, url, local_storage, session_storage,
                               verifies, shot)
        /\ outcome' =
              IF ~verifies THEN args @@ [result |-> "ok"]
              ELSE args @@
                   [result |-> IF GateRaises(similarity, visual_similarity_threshold)
                               THEN "ValueError: Visual state verification failed"
                               ELSE "ok",
                    similarity |-> similarity,
                    threshold  |-> visual_similarity_threshold]

\* the caller restores the session state it holds
Apply ==
    /\ ops < MaxOps
    /\ ops' = ops + 1
    /\ \E verify \in BOOLEAN :
         LET gated == verify /\ Has(snap, "extensions")
                             /\ Has(snap["extensions"], "screenshot")
         IN  \E threshold \in (IF gated THEN Thresholds ELSE {SimDen}),
                shot \in (IF gated THEN Screens ELSE {EmptyBytes}) :
                ApplyState(snap, verify, threshold, shot)
    /\ UNCHANGED <<ckVars, cmpVars, asideVars, playVars, redirects, clock, adapterVars, snap, captured,
                   recordingVars, trail>>

--------------------------------------------------------------------------
(* play_recording *)

\* sep in s, for a str s held as a sequence of characters
Contains(s, sep) == \E i \in 1..Len(s) : s[i] = sep

\* s.split(sep): the pieces of s between the occurrences of sep
Split(s, sep) ==
    LET pieces[i \in 0..Len(s)] ==
            IF i = 0 THEN << <<>> >>
            ELSE IF s[i] = sep THEN Append(pieces[i - 1], <<>>)
            ELSE [pieces[i - 1] EXCEPT ![Len(pieces[i - 1])] = Append(@, s[i])]
    IN  pieces[Len(s)]

\* an event that causes no driver call
NoCall == [op |-> "none"]

\* the click branch of play_recording
DispatchClick(event) ==
    LET target == event["target"] IN
    IF Contains(target, "#")
    THEN [op |-> "click_by_id", arg |-> Split(Split(target, "#")[2], ".")[1]]
    ELSE IF Contains(target, ".")
    THEN [op |-> "click_by_class", arg |-> Split(target, ".")[2]]
    ELSE IF Has(event["data"], "text")
    THEN [op |-> "click_on_text", arg |-> event["data"]["text"]]
    ELSE [op |-> "click_by_tag", arg |-> Split(Split(target, ".")[1], "#")[1]]

\* an input branch that ends in a click on the bare tag
DispatchInput_TagClick(event) ==
    LET target == event["target"]
        value == event["data"]["value"]
    IN
    IF Contains(target, "#")
    THEN [op |-> "fill_by_id", arg |-> Split(Split(target, "#")[2], ".")[1],
          value |-> value]
    ELSE IF Contains(target, ".")
    THEN [op |-> "fill_by_class", arg |-> Split(target, ".")[2], value |-> value]
    ELSE [op |-> "click_by_tag", arg |-> Split(Split(target, ".")[1], "#")[1]]

\* the input branch of play_recording
DispatchInput(event) ==
    LET target == event["target"]
        value == event["data"]["value"]
    IN
    IF Contains(target, "#")
    THEN [op |-> "fill_by_id", arg |-> Split(Split(target, "#")[2], ".")[1],
          value |-> value]
    ELSE IF Contains(target, ".")
    THEN [op |-> "fill_by_class", arg |-> Split(target, ".")[2], value |-> value]
    ELSE [op |-> "fill_by_label", arg |-> Split(Split(target, ".")[1], "#")[1],
          value |-> value]

\* a navigation branch that navigates whether or not the event has a url
DispatchNavigation_Always(event) ==
    [op |-> "goto", arg |-> Get(event["data"], "url", BlankUrl)]

\* the navigation branch of play_recording
DispatchNavigation(event) ==
    IF Has(event["data"], "url")
    THEN [op |-> "goto", arg |-> event["data"]["url"]]
    ELSE NoCall

\* the driver call play_recording makes for one event
Dispatch(event) ==
    IF event["type"] = "click" THEN DispatchClick(event)
    ELSE IF event["type"] = "input" THEN DispatchInput(event)
    ELSE IF event["type"] = "navigation" THEN DispatchNavigation(event)
    ELSE NoCall

\* a loop over the events sorted by timestamp (a stable sort)
LoopEvent_ByTimestamp(evs, i) ==
    LET rank(k) == Cardinality({ j \in 1..Len(evs) :
                        \/ evs[j]["timestamp"] < evs[k]["timestamp"]
                        \/ evs[j]["timestamp"] = evs[k]["timestamp"] /\ j < k }) + 1
    IN  evs[CHOOSE k \in 1..Len(evs) : rank(k) = i]

\* for event in events: the event of the i-th iteration
LoopEvent(evs, i) == evs[i]

\* The module imports json and time, typing and urllib.parse, and psp.core:
\* the name asyncio is not bound, so `asyncio.sleep(...)` raises NameError.
AsyncioImported == FALSE

\* a handler that lets the failure end the replay
OnEventError_Abort(i) == [pc |-> "raised", idx |-> i + 1]

\* except Exception: the warning is printed and the loop goes on
OnEventError(i) == [pc |-> "loop", idx |-> i + 1]

\* speed = options.get("speed", 1.0) if options else 1.0
\* A speed is held in whole units; a sleep of 0.5 / speed seconds in ms.
SleepMs(s) == 500 \div s

\* a replay that goes to the sleep whatever the speed
SleepGuard_Always(s) == TRUE

\* if speed > 0: whether the loop goes to the sleep (and to the division)
SleepGuard(s) == s > 0

\* SkyvernAdapter.play_recording(events, options), up to its loop
PlayCall ==
    /\ playPc = "idle"
    /\ IF ~connected
       THEN /\ playPc' = "raised"
            /\ outcome' = NotConnected("play_recording")
            /\ UNCHANGED evIdx
       ELSE /\ playPc' = "loop"
            /\ evIdx' = 1
            /\ outcome' = [op |-> "play_recording", result |-> "running"]
    /\ calls' = <<>>
    /\ UNCHANGED <<ckVars, cmpVars, asideVars, events, speed, delays, warnings, pageVars, redirects,
                   clock, adapterVars, ops, snap, captured, recordingVars,
                   recorderVars, trail>>

\* One iteration of the loop: the event's driver call, which succeeds or
\* raises, then the sleep, all under one try.
PlayEvent ==
    /\ playPc = "loop"
    /\ evIdx <= Len(events)
    /\ LET event == LoopEvent(events, evIdx)
           call == Dispatch(event)
       IN  \E ok \in (IF call = NoCall THEN {TRUE} ELSE BOOLEAN) :
           LET acted == call # NoCall
               \* the try body got to the sleep and asyncio is not a name
               nameError == ok /\ SleepGuard(speed) /\ ~AsyncioImported
               sleeps == ok /\ SleepGuard(speed) /\ AsyncioImported
               caught == ~ok \/ nameError
               after == IF caught THEN OnEventError(evIdx)
                        ELSE [pc |-> "loop", idx |-> evIdx + 1]
           IN  /\ calls' = IF acted
                           THEN Append(calls, call @@ [ev |-> evIdx, ok |-> ok])
                           ELSE calls
               /\ pageUrl' = IF acted /\ ok /\ call.op = "goto"
                             THEN Goto(call.arg) ELSE pageUrl
               /\ IF acted /\ ok /\ call.op = "goto"
                  THEN Unloaded ELSE UNCHANGED recorderVars
               /\ delays' = IF sleeps THEN Append(delays, SleepMs(speed)) ELSE delays
               /\ warnings' =
                     IF ~ok THEN Append(warnings, [ev |-> evIdx, error |-> "DriverError"])
                     ELSE IF nameError
                     THEN Append(warnings, [ev |-> evIdx, error |-> "NameError"])
                     ELSE warnings
               /\ playPc' = after.pc
               /\ evIdx' = after.idx
               /\ outcome' = IF after.pc = "raised"
                             THEN [op |-> "play_recording", result |-> "DriverError"]
                             ELSE outcome
    /\ UNCHANGED <<ckVars, cmpVars, asideVars, events, speed, pageId, pageCookies, pageLocal, pageSession,
                   redirects, clock, adapterVars, ops, snap, captured, recordingVars,
                   trail>>

\* the loop is over: play_recording returns None
PlayReturn ==
    /\ playPc = "loop"
    /\ evIdx > Len(events)
    /\ playPc' = "returned"
    /\ outcome' = [op |-> "play_recording", result |-> "ok"]
    /\ UNCHANGED <<ckVars, cmpVars, asideVars, events, speed, evIdx, delays, warnings, pageVars,
                   redirects, clock, calls, adapterVars, ops, snap, captured,
                   recordingVars, recorderVars, trail>>

\* the characters of the targets of the traces
Str1(a) == <<a>>
Str3(a, b, c) == <<a, b, c>>

\* "history.pushState" and "popstate"
PushStateTarget ==
    <<"h", "i", "s", "t", "o", "r", "y", ".", "p", "u", "s", "h", "S", "t", "a", "t", "e">>
PopStateTarget == <<"p", "o", "p", "s", "t", "a", "t", "e">>

\* The events of the traces, as the in-page recorder shapes them: a target is
\* the tag, then "#" and the id, or else "." and the classes joined by ".".
ClickEvent(target, data) ==
    [type |-> "click", timestamp |-> 120, target |-> target, data |-> data]
InputEvent(target) ==
    [type |-> "input", timestamp |-> 250, target |-> target,
     data |-> [value |-> "hello", type |-> "text"]]
NavigationEvent(target, data) ==
    [type |-> "navigation", timestamp |-> 400, target |-> target, data |-> data]

EventPool ==
    { ClickEvent(Str3("B", "#", "s"), [x |-> 1, y |-> 2, text |-> "Go"]),
      ClickEvent(<<"B", ".", "c", ".", "d">>, [x |-> 1, y |-> 2, text |-> "Go"]),
      ClickEvent(Str1("B"), [x |-> 1, y |-> 2, text |-> "Go"]),
      ClickEvent(Str1("B"), [x |-> 1, y |-> 2, text |-> ""]),
      ClickEvent(Str1("B"), [x |-> 1, y |-> 2]),
      InputEvent(Str3("I", "#", "s")),
      InputEvent(Str3("I", ".", "c")),
      InputEvent(Str1("I")),
      NavigationEvent(PushStateTarget, [url |-> HttpsB]),
      NavigationEvent(PopStateTarget, EmptyDict) }

\* the longest trace replayed
MaxEvents == 2

Traces == UNION { [1..n -> EventPool] : n \in 0..MaxEvents }

Speeds == {-1, 0, 1, 2}

--------------------------------------------------------------------------
(* start_recording, the in-page recorder, stop_recording *)

\* a record stamped with the time of the event itself
RecordEvent_Absolute(type, target, data, now) == [type |-> type, timestamp |-> now, target |-> target, data |-> data]

\* recordEvent(type, target, data): the record pushed on window._pspEvents
RecordEvent(type, target, data, now) ==
    [type |-> type, timestamp |-> now - pspStartTime, target |-> target, data |-> data]

\* the URL history.pushState is given: another path of the page's origin
PushedUrl == [pageUrl EXCEPT !.path = "/next"]

\* what a user does on the page
UserActionKinds == {"click", "input", "pushState", "popstate"}

\* the record one listener of the recording script makes of a user action
RecordOf(kind, now) ==
    IF kind = "click"
    THEN RecordEvent("click", Str3("B", "#", "s"), [x |-> 1, y |-> 2, text |-> "Go"], now)
    ELSE IF kind = "input"
    THEN RecordEvent("input", Str3("I", "#", "s"), [value |-> "hello", type |-> "text"], now)
    ELSE IF kind = "pushState"
    THEN RecordEvent("navigation", PushStateTarget, [url |-> PushedUrl], now)
    ELSE RecordEvent("navigation", PopStateTarget, [url |-> pageUrl], now)

\* n copies of the record r
Copies(r, n) == [i \in 1..n |-> r]

\* the most user actions in one run
MaxActions == 2

\* the most start_recording and stop_recording calls that run in one run
MaxRecOps == 4

Actions == { i \in 1..Len(trail) : trail[i]["kind"] = "action" }
RecOps == { i \in 1..Len(trail) : trail[i]["kind"] \in {"start", "stop"} }

\* The user clicks, types, or moves in the history.  Every
\* document.addEventListener / window.addEventListener call of the recording
\* script added a listener and every run wrapped history.pushState once
\* more, so a page that ran the script n times makes n records of the action.
UserAction ==
    /\ Cardinality(Actions) < MaxActions
    /\ \E kind \in UserActionKinds :
          LET records == Copies(RecordOf(kind, clock + 1), listeners)
          IN  /\ pspEvents' = pspEvents \o records
              /\ pageUrl' = IF kind = "pushState" THEN PushedUrl ELSE pageUrl
              /\ trail' = Append(trail, [kind |-> "action", user |-> kind,
                                         records |-> records])
    /\ clock' = clock + 1
    /\ UNCHANGED <<ckVars, cmpVars, asideVars, playVars, pageId, pageCookies, pageLocal, pageSession,
                   redirects, calls, adapterVars, outcome, ops, snap, captured,
                   recordingVars, pspStartTime, listeners>>

\* a recording script that leaves window._pspEvents as it is
RecordingScriptBuffer_Keep(buffer) == buffer

\* window._pspEvents = [] of the recording script
RecordingScriptBuffer(buffer) == <<>>

\* self._recording_events = [] of start_recording
ResetRecordingEvents(accumulated) == <<>>

\* SkyvernAdapter.start_recording
\* self._recording_events = []: the attribute is bound to a new list, and
\* a list the caller got from stop_recording before is no longer the
\* adapter's
Rebound(refs) == [i \in DOMAIN refs |-> [refs[i] EXCEPT !["live"] = FALSE]]

StartRecording ==
    /\ IF ~connected
       THEN /\ outcome' = NotConnected("start_recording")
            /\ calls' = <<>>
            /\ UNCHANGED <<recordingVars, recorderVars, trail>>
       ELSE /\ Cardinality(RecOps) < MaxRecOps
            /\ recordingEvents' = ResetRecordingEvents(recordingEvents)
            /\ held' = Rebound(held)
            /\ recordingStartTime' = clock
            /\ pspEvents' = RecordingScriptBuffer(pspEvents)
            /\ pspStartTime' = clock
            /\ listeners' = listeners + 1
            /\ calls' = <<Call("evaluate")>>
            /\ outcome' = [op |-> "start_recording", result |-> "ok"]
            /\ trail' = Append(trail, [kind |-> "start"])
    /\ UNCHANGED <<ckVars, cmpVars, asideVars, playVars, pageVars, redirects, clock, adapterVars, ops,
                   snap, captured>>

\* the loop of stop_recording: the canonical event of a browser event
CanonicalEvent(event) ==
    [type      |-> event["type"],
     timestamp |-> event["timestamp"],
     target    |-> event["target"],
     data      |-> event["data"]]

CanonicalEvents(browser_events) ==
    [i \in 1..Len(browser_events) |-> CanonicalEvent(browser_events[i])]

\* a stop_recording that keeps only the new batch
ExtendEvents_Replace(accumulated, new_events) == new_events

\* self._recording_events.extend(events)
ExtendEvents(accumulated, new_events) == accumulated \o new_events

\* SkyvernAdapter.stop_recording: the script hands over window._pspEvents and
\* leaves it empty
\* self._recording_events.extend(events); return self._recording_events:
\* the list is extended in place, so every reference the caller holds to it
\* sees the new contents, and the caller gets one more reference to it.
\* ret is what a list held when it was returned, now what it holds.
ReturnedList(refs, list) ==
    Append([i \in DOMAIN refs |-> IF refs[i]["live"] THEN [refs[i] EXCEPT !["now"] = list]
                                  ELSE refs[i]],
           [ret |-> list, now |-> list, live |-> TRUE])

StopRecording ==
    /\ IF ~connected
       THEN /\ outcome' = NotConnected("stop_recording")
            /\ calls' = <<>>
            /\ UNCHANGED <<recordingVars, recorderVars, trail>>
       ELSE /\ Cardinality(RecOps) < MaxRecOps
            /\ LET browser_events == pspEvents
                   new_events == CanonicalEvents(browser_events)
               IN  recordingEvents' = ExtendEvents(recordingEvents, new_events)
            /\ held' = ReturnedList(held, recordingEvents')
            /\ pspEvents' = <<>>
            /\ calls' = <<Call("evaluate")>>
            /\ outcome' = [op |-> "stop_recording", result |-> "ok",
                           ret |-> recordingEvents']
            /\ trail' = Append(trail, [kind |-> "stop", ret |-> recordingEvents'])
            /\ UNCHANGED <<recordingStartTime, pspStartTime, listeners>>
    /\ UNCHANGED <<ckVars, cmpVars, asideVars, playVars, pageVars, redirects, clock, adapterVars, ops,
                   snap, captured>>

\* connect(None), between two operations: self.browser = None, no browser
\* is attached any more
Detach ==
    /\ connected
    /\ playPc # "loop"
    /\ connected' = FALSE
    /\ UNCHANGED <<ckVars, cmpVars, asideVars, playVars, pageVars, redirects, clock, calls, visualComparison,
                   screenshotOnCapture, outcome, ops, snap, captured, recordingVars,
                   recorderVars, trail>>

--------------------------------------------------------------------------
(* The caller and the world around the adapter *)

\* SkyvernAdapter.connect: the caller attaches the page
Connect ==
    /\ ~connected
    /\ connected' = TRUE
    /\ UNCHANGED <<ckVars, cmpVars, asideVars, playVars, pageVars, redirects, clock, calls, visualComparison,
                   screenshotOnCapture, outcome, ops, snap, captured, recordingVars,
                   recorderVars, trail>>

\* the most fresh pages a caller opens in one run
MaxPages == 1

FreshStorage == [o \in Origins |-> EmptyDict]

\* the caller opens a fresh page (blank, empty jar, empty storage) and
\* connects the adapter to it
NewPage ==
    /\ pageId < MaxPages
    /\ pageId' = pageId + 1
    /\ pageUrl' = BlankUrl
    /\ pageCookies' = <<>>
    /\ pageLocal' = FreshStorage
    /\ pageSession' = FreshStorage
    /\ connected' = TRUE
    /\ Unloaded
    /\ UNCHANGED <<ckVars, cmpVars, asideVars, playVars, redirects, clock, calls, visualComparison,
                   screenshotOnCapture, outcome, ops, snap, captured, recordingVars,
                   trail>>

\* the caller hands apply_state a session state without its history, or
\* without its cookie list
CallerStrips ==
    /\ \E part \in {"history", "cookies"} :
          /\ part = "history" => Has(snap, "history")
          /\ part = "cookies" => Has(snap, "storage") /\ Has(snap["storage"], "cookies")
          /\ snap' = IF part = "history"
                     THEN Restrict(snap, DOMAIN snap \ {"history"})
                     ELSE [snap EXCEPT !["storage"] =
                             Restrict(snap["storage"], {"localStorage", "sessionStorage"})]
    /\ UNCHANGED <<ckVars, cmpVars, asideVars, playVars, pageVars, redirects, clock, calls, adapterVars, outcome,
                   ops, captured, recordingVars, recorderVars, trail>>

NoOutcome == [op |-> "none", result |-> "ok"]

\* no second adapter
NoPeer == <<>>

\* a PSPClient that was constructed and not entered, and a server without
\* sessions
ClientIdle ==
    /\ clientSession = FALSE
    /\ sessions = EmptyDict
    /\ server = {}
    /\ tasks = {}
    /\ clientOutcome = NoOutcome
    /\ stale = {}
    /\ objects = 0
    /\ clientOps = 0

\* neither a second adapter nor a client in use
AsideIdle == peer = NoPeer /\ ClientIdle

\* __init__: nothing recorded; a page that never ran the recording script
RecordingIdle ==
    /\ recordingEvents = <<>>
    /\ held = <<>>
    /\ recordingStartTime = 0
    /\ pspEvents = <<>>
    /\ pspStartTime = 0
    /\ listeners = 0
    /\ trail = <<>>

\* no replay in progress
PlayIdle ==
    /\ events = <<>>
    /\ speed = 1
    /\ evIdx = 0
    /\ playPc = "off"
    /\ delays = <<>>
    /\ warnings = <<>>

\* an adapter that is not in use
AdapterIdle ==
    /\ PlayIdle
    /\ RecordingIdle
    /\ pageId = 0
    /\ pageUrl = BlankUrl
    /\ pageCookies = <<>>
    /\ pageLocal = FreshStorage
    /\ pageSession = FreshStorage
    /\ redirects = [u \in URLs |-> u]
    /\ clock = 0
    /\ calls = <<>>
    /\ connected = FALSE
    /\ visualComparison = FALSE
    /\ screenshotOnCapture = FALSE
    /\ outcome = NoOutcome
    /\ ops = 0
    /\ snap = EmptyDict
    /\ captured = EmptyDict

StorageMaps == { EmptyDict } \cup { (k :> "v") : k \in StorageKeys }

\* an adapter just constructed and a caller holding an empty session state
Fresh ==
    /\ CookieIdle
    /\ CompareIdle
    /\ AsideIdle
    /\ PlayIdle
    /\ RecordingIdle
    /\ pageId = 0
    /\ clock = 0
    /\ calls = <<>>
    /\ connected = FALSE
    /\ outcome = NoOutcome
    /\ ops = 0
    /\ snap = EmptyDict
    /\ captured = EmptyDict

\* A page somewhere on the web with a cookie jar and stored keys; the
\* adapter takes no screenshots.
Init ==
    /\ Fresh
    /\ pageUrl \in URLs
    /\ pageCookies \in InitialJars
    /\ \E here \in StorageMaps :
          pageLocal = [o \in Origins |->
                         IF o = BrowserOrigin(pageUrl) THEN here ELSE EmptyDict]
    /\ \E here \in StorageMaps :
          pageSession = [o \in Origins |->
                           IF o = BrowserOrigin(pageUrl) THEN here ELSE EmptyDict]
    /\ redirects \in RedirectMaps
    /\ visualComparison = FALSE
    /\ screenshotOnCapture = FALSE

\* One page, no redirects; the adapter takes a screenshot with every capture.
InitVisual ==
    /\ Fresh
    /\ pageUrl = HttpsA
    /\ pageCookies = <<JarCookieSid>>
    /\ pageLocal = [o \in Origins |->
                      IF o = BrowserOrigin(pageUrl) THEN ("k" :> "v") ELSE EmptyDict]
    /\ pageSession = FreshStorage
    /\ redirects = [u \in URLs |-> u]
    /\ visualComparison \in BOOLEAN
    /\ screenshotOnCapture = TRUE

Next ==
    \/ Connect
    \/ NewPage
    \/ CaptureState
    \/ CallerStrips
    \/ Apply

\* capture and restore over pages, jars, stored keys and redirects
Spec == Init /\ [][Next]_vars

\* capture and restore with screenshots and the visual gate
SpecVisual == InitVisual /\ [][Next]_vars

\* what capture_state returns for a page at url with an empty jar and no
\* stored key
EmptySnapshot(url) ==
    SessionState(url, PageTitle, <<>>,
                 [localStorage |-> EmptyDict, sessionStorage |-> EmptyDict],
                 EmptyBytes, None, 0)

\* every origin of the browser holds the same keys
StorageEverywhere(map) == [o \in Origins |-> map]

\* The caller holds a snapshot taken earlier of a page without cookies and
\* stored keys; the page to restore into may have a cookie and stored keys.
InitEmptyRestore ==
    /\ CookieIdle
    /\ CompareIdle
    /\ AsideIdle
    /\ PlayIdle
    /\ RecordingIdle
    /\ pageId = 0
    /\ pageUrl \in URLs
    /\ pageCookies \in {<<>>, <<JarCookieSid>>}
    /\ pageLocal \in { StorageEverywhere(m) : m \in StorageMaps }
    /\ pageSession \in { StorageEverywhere(m) : m \in StorageMaps }
    /\ redirects \in RedirectMaps
    /\ clock = 0
    /\ calls = <<>>
    /\ connected = FALSE
    /\ visualComparison = FALSE
    /\ screenshotOnCapture = FALSE
    /\ outcome = NoOutcome
    /\ ops = 0
    /\ snap \in { EmptySnapshot(u) : u \in URLs }
    /\ captured = EmptyDict

\* the restore of a snapshot without cookies and stored keys
SpecEmptyRestore == InitEmptyRestore /\ [][Next]_vars

\* A caller about to replay a trace at some speed, on a blank page.
InitReplay ==
    /\ CookieIdle
    /\ CompareIdle
    /\ AsideIdle
    /\ RecordingIdle
    /\ events \in Traces
    /\ speed \in Speeds
    /\ evIdx = 0
    /\ playPc = "idle"
    /\ delays = <<>>
    /\ warnings = <<>>
    /\ pageId = 0
    /\ pageUrl = BlankUrl
    /\ pageCookies = <<>>
    /\ pageLocal = FreshStorage
    /\ pageSession = FreshStorage
    /\ redirects = [u \in URLs |-> u]
    /\ clock = 0
    /\ calls = <<>>
    /\ connected \in BOOLEAN
    /\ visualComparison = FALSE
    /\ screenshotOnCapture = FALSE
    /\ outcome = NoOutcome
    /\ ops = 0
    /\ snap = EmptyDict
    /\ captured = EmptyDict

NextReplay ==
    \/ PlayCall
    \/ PlayEvent
    \/ PlayReturn

\* the replay of every trace
SpecReplay == InitReplay /\ [][NextReplay]_vars

\* the cookie codec alone, on every driver cookie
InitCookie ==
    /\ AdapterIdle
    /\ CompareIdle
    /\ AsideIdle
    /\ ckIn \in DriverCookies
    /\ ckNorm = <<>>
    /\ ckOut = None
    /\ ckPc = "in"

SpecCookie == InitCookie /\ [][CookieNext]_vars

\* every pair of screenshot bytes, about to be compared
InitCompare ==
    /\ AdapterIdle
    /\ CookieIdle
    /\ AsideIdle
    /\ cmpReference \in Images \cup {Garbage, EmptyBytes}
    /\ cmpCurrent \in Images \cup {Garbage, EmptyBytes}
    /\ cmpResult = 0
    /\ cmpPc = "in"

CompareNext ==
    Compare /\ UNCHANGED <<ckVars, asideVars, playVars, pageVars, redirects, clock, calls,
                           adapterVars, outcome, ops, snap, captured, recordingVars,
                           recorderVars, trail>>

\* _compare_screenshots alone, on every pair of screenshot bytes
SpecCompare == InitCompare /\ [][CompareNext]_vars

\* A page at https://a.test and an adapter just constructed; the caller is
\* about to record.
InitRecording ==
    /\ CookieIdle
    /\ CompareIdle
    /\ AsideIdle
    /\ PlayIdle
    /\ RecordingIdle
    /\ pageId = 0
    /\ pageUrl = HttpsA
    /\ pageCookies = <<>>
    /\ pageLocal = FreshStorage
    /\ pageSession = FreshStorage
    /\ redirects = [u \in URLs |-> u]
    /\ clock = 5
    /\ calls = <<>>
    /\ connected = FALSE
    /\ visualComparison = FALSE
    /\ screenshotOnCapture = FALSE
    /\ outcome = NoOutcome
    /\ ops = 0
    /\ snap = EmptyDict
    /\ captured = EmptyDict

NextRecording ==
    \/ Connect
    \/ StartRecording
    \/ UserAction
    \/ StopRecording

\* recording: start_recording, user actions and stop_recording in any order
SpecRecording == InitRecording /\ [][NextRecording]_vars

\* the record of the one click of the recording the caller made before
RecordedClick ==
    [type |-> "click", timestamp |-> 1, target |-> Str3("B", "#", "s"),
     data |-> [x |-> 1, y |-> 2, text |-> "Go"]]

\* An adapter that recorded one click (start_recording at 5, the click at
\* 6, stop_recording) on the page at https://a.test, which has two cookies
\* and a stored key; the caller holds a two-event trace to replay.
InitLifecycle ==
    /\ CookieIdle
    /\ CompareIdle
    /\ AsideIdle
    /\ events = <<ClickEvent(Str3("B", "#", "s"), [x |-> 1, y |-> 2, text |-> "Go"]),
                  NavigationEvent(PushStateTarget, [url |-> HttpsB])>>
    /\ speed = 1
    /\ evIdx = 0
    /\ playPc = "idle"
    /\ delays = <<>>
    /\ warnings = <<>>
    /\ recordingEvents = <<RecordedClick>>
    /\ held = <<[ret |-> <<RecordedClick>>, now |-> <<RecordedClick>>, live |-> TRUE]>>
    /\ recordingStartTime = 5
    /\ pspEvents = <<>>
    /\ pspStartTime = 5
    /\ listeners = 1
    /\ trail = <<[kind |-> "start"],
                 [kind |-> "action", user |-> "click", records |-> <<RecordedClick>>],
                 [kind |-> "stop", ret |-> <<RecordedClick>>]>>
    /\ pageId = 0
    /\ pageUrl = HttpsA
    /\ pageCookies = <<JarCookieSid, JarCookiePref>>
    /\ pageLocal = [o \in Origins |->
                      IF o = BrowserOrigin(HttpsA) THEN ("k" :> "v") ELSE EmptyDict]
    /\ pageSession = FreshStorage
    /\ redirects = [u \in URLs |-> u]
    /\ clock = 6
    /\ calls = <<Call("evaluate")>>
    /\ connected \in BOOLEAN
    /\ visualComparison = FALSE
    /\ screenshotOnCapture = FALSE
    /\ outcome = [op |-> "stop_recording", result |-> "ok", ret |-> <<RecordedClick>>]
    /\ ops = 0
    /\ snap = EmptyDict
    /\ captured = EmptyDict

\* the most calls and user actions of one run, the recording before included
MaxCalls == 6

\* the calls that ran and the user actions so far
LifecycleCalls ==
    ops + Cardinality(RecOps) + Cardinality(Actions) + (IF playPc = "idle" THEN 0 ELSE 1)

\* the caller's calls and the user's actions, while the run has calls left
LifecycleCapture == LifecycleCalls < MaxCalls /\ CaptureState
LifecycleApply == LifecycleCalls < MaxCalls /\ Apply
LifecycleStart == LifecycleCalls < MaxCalls /\ StartRecording
LifecycleUserAction == LifecycleCalls < MaxCalls /\ UserAction
LifecycleStop == LifecycleCalls < MaxCalls /\ StopRecording
LifecyclePlay == LifecycleCalls < MaxCalls /\ PlayCall

NextLifecycle ==
    \/ Connect
    \/ Detach
    \/ LifecycleCapture
    \/ LifecycleApply
    \/ LifecycleStart
    \/ LifecycleUserAction
    \/ LifecycleStop
    \/ LifecyclePlay
    \/ PlayEvent
    \/ PlayReturn

\* every operation of the adapter, with and without a browser attached
SpecLifecycle == InitLifecycle /\ [][NextLifecycle]_vars

--------------------------------------------------------------------------
(* Claims about apply_state and capture_state *)

\* the last operation was an apply_state that got past the connection check
Applied == outcome["op"] = "apply_state" /\ Has(outcome, "state")

AppliedState == outcome["state"]

HasCurrentUrl(st) == Has(st, "history") /\ Has(st["history"], "currentUrl")
HasCookieList(st) == Has(st, "storage") /\ Has(st["storage"], "cookies")

\* the same cookie, by name, value, domain and path
SameCookie(a, b) ==
    /\ a["name"] = b["name"]
    /\ a["value"] = b["value"]
    /\ a["domain"] = b["domain"]
    /\ a["path"] = b["path"]

\* C1: for a session state with history.currentUrl and a cookie list,
\* apply_state calls goto(history.currentUrl), then add_cookie once per
\* cookie in the order of the list, then get_current_url, then evaluate once,
\* then goto of the URL get_current_url returned; nothing else comes before
\* or between them, and what follows is at most the screenshot of the visual
\* gate.  So no storage write precedes a cookie and no cookie follows it.
C1_ApplyOrder ==
    (Applied /\ HasCurrentUrl(AppliedState) /\ HasCookieList(AppliedState)) =>
        LET cookies == AppliedState["storage"]["cookies"]
            n == Len(cookies)
        IN  /\ Len(calls) \in {n + 4, n + 5}
            /\ calls[1]["op"] = "goto"
            /\ calls[1]["url"] = AppliedState["history"]["currentUrl"]
            /\ \A i \in 1..n :
                  /\ calls[1 + i]["op"] = "add_cookie"
                  /\ SameCookie(calls[1 + i]["cookie"], cookies[i])
            /\ calls[n + 2]["op"] = "get_current_url"
            /\ calls[n + 3]["op"] = "evaluate"
            /\ calls[n + 4]["op"] = "goto"
            /\ calls[n + 4]["url"] = calls[n + 2]["ret"]
            /\ Len(calls) = n + 5 => calls[n + 5]["op"] = "screenshot"

\* a restore of two cookies whose navigation was redirected
C1_Witness ==
    /\ Applied /\ HasCurrentUrl(AppliedState) /\ HasCookieList(AppliedState)
    /\ Len(AppliedState["storage"]["cookies"]) = 2
    /\ Len(calls) = 6
    /\ calls[4]["ret"] # calls[1]["url"]
    /\ calls[6]["url"] = calls[4]["ret"]

\* the get_current_url and evaluate calls of the last apply_state
UrlCall == calls[CHOOSE i \in 1..Len(calls) : calls[i]["op"] = "get_current_url"]
EvaluateCall == calls[CHOOSE i \in 1..Len(calls) : calls[i]["op"] = "evaluate"]

\* C2: origin isolation.  When a session state captured at origin A (scheme,
\* host and port) is restored into a page whose origin after the navigation
\* is another origin B, the storage script is handed the state's maps for B,
\* which are empty, never A's.
C2_OriginIsolation ==
    (Applied /\ HasCurrentUrl(AppliedState)
             /\ AppliedState = captured["state"]) =>
        LET A == BrowserOrigin(captured["url"])
            B == BrowserOrigin(UrlCall["ret"])
        IN  A # B =>
              /\ EvaluateCall["localStorage"] = EmptyDict
              /\ EvaluateCall["sessionStorage"] = EmptyDict

\* no navigation of the last apply_state was redirected
NoRedirect ==
    /\ calls[1]["op"] = "goto"
    /\ UrlCall["ret"] = calls[1]["url"]
    /\ pageUrl = UrlCall["ret"]

\* the last apply_state restored the captured state, unchanged, into another
\* page than the one it came from, which is still the page of the driver
RestoredIntoFreshPage ==
    /\ Applied
    /\ Has(captured, "state")
    /\ AppliedState = captured["state"]
    /\ outcome["page"] # captured["pageId"]
    /\ outcome["page"] = pageId

\* C3: capture/restore round trip.  After capture_state on a page and
\* apply_state of the returned state into a fresh page with no redirect, the
\* fresh page's jar holds every captured cookie (name, value, domain, path)
\* and its localStorage and sessionStorage equal the captured ones.
C3_RoundTrip ==
    (RestoredIntoFreshPage /\ NoRedirect) =>
        /\ \A i \in 1..Len(captured["cookies"]) :
              \E j \in 1..Len(pageCookies) :
                 SameCookie(pageCookies[j], captured["cookies"][i])
        /\ pageLocal[BrowserOrigin(pageUrl)] = captured["local"]
        /\ pageSession[BrowserOrigin(pageUrl)] = captured["session"]

\* the end-to-end scenario: cookie sid=abc and localStorage k=v, restored
C3_Witness ==
    /\ RestoredIntoFreshPage /\ NoRedirect
    /\ \E i \in 1..Len(captured["cookies"]) : captured["cookies"][i] = JarCookieSid
    /\ Len(captured["cookies"]) = 2
    /\ captured["local"] = ("k" :> "v")
    /\ \E j \in 1..Len(pageCookies) :
          pageCookies[j]["name"] = "sid" /\ pageCookies[j]["value"] = "abc"
    /\ pageLocal[BrowserOrigin(pageUrl)]["k"] = "v"

\* the last apply_state was asked to verify and its state has a screenshot
GateApplies ==
    /\ outcome["verify_visual_state"]
    /\ Has(AppliedState, "extensions")
    /\ Has(AppliedState["extensions"], "screenshot")

ScreenshotCalls == { i \in 1..Len(calls) : calls[i]["op"] = "screenshot" }

VisualError == "ValueError: Visual state verification failed"

\* C5: the visual gate.  With verify_visual_state set and a screenshot in
\* the state, apply_state takes one screenshot and raises the verification
\* error exactly when the similarity measured against the reference is
\* strictly below the threshold, the error carrying that similarity; at or
\* above the threshold it completes.  Without verify_visual_state, or without
\* the screenshot extension, it takes no screenshot and raises no error.
C5_VisualGate ==
    Applied =>
        IF GateApplies
        THEN LET measured ==
                   CompareScreenshots(AppliedState["extensions"]["screenshot"]["data"],
                                      calls[Len(calls)]["ret"])
             IN  /\ Cardinality(ScreenshotCalls) = 1
                 /\ calls[Len(calls)]["op"] = "screenshot"
                 /\ outcome["similarity"] = measured
                 /\ (outcome["result"] = VisualError)
                       <=> (measured < outcome["threshold"])
                 /\ (outcome["result"] = "ok")
                       <=> (measured >= outcome["threshold"])
        ELSE /\ ScreenshotCalls = {}
             /\ outcome["result"] = "ok"

\* a restore that passed the gate with the similarity equal to the threshold
C5_Witness ==
    /\ Applied /\ GateApplies
    /\ outcome["result"] = "ok"
    /\ outcome["similarity"] = outcome["threshold"]
    /\ outcome["similarity"] = SimDen - 1

\* a restore that the gate refused, one step under the threshold
C5_WitnessRaised ==
    /\ Applied /\ GateApplies
    /\ outcome["result"] = VisualError
    /\ outcome["similarity"] = SimDen - 1
    /\ outcome["threshold"] = SimDen

--------------------------------------------------------------------------
(* Claims about play_recording *)

\* the events that ask for a browser action: every click, every input, and
\* a navigation that carries a url
HasAction(e) ==
    \/ e["type"] \in {"click", "input"}
    \/ e["type"] = "navigation" /\ Has(e["data"], "url")

\* the driver calls made for the event at position i
CallsOf(i) == { j \in 1..Len(calls) : calls[j]["ev"] = i }

Replaying == playPc \in {"loop", "returned"}

\* C6: replay resilience.  play_recording on a connected adapter never
\* raises, whichever of the events' browser actions fail, and when it has
\* returned the action of every event that asks for one was dispatched, those
\* after a failed event included.
C6_ReplayResilience ==
    /\ playPc = "raised" => ~connected
    /\ playPc = "returned" =>
          \A i \in 1..Len(events) : HasAction(events[i]) => CallsOf(i) # {}

\* a replay whose first action failed and whose second was still dispatched
C6_Witness ==
    /\ playPc = "returned"
    /\ Len(events) = 2
    /\ Len(calls) = 2
    /\ ~calls[1]["ok"] /\ calls[1]["ev"] = 1
    /\ calls[2]["ev"] = 2

\* the driver call, without the bookkeeping of the call log
Bare(c) == Restrict(c, DOMAIN c \ {"ev", "ok"})

\* C7: replay order.  The driver calls of play_recording are made in the
\* order of the events handed in, whatever their timestamps, one call at most
\* per event, each the call of its own event.
C7_ReplayOrder ==
    Replaying =>
        /\ \A j, k \in 1..Len(calls) : j < k => calls[j]["ev"] < calls[k]["ev"]
        /\ \A j \in 1..Len(calls) :
              /\ calls[j]["ev"] \in 1..Len(events)
              /\ calls[j]["ev"] < evIdx
              /\ Bare(calls[j]) = Dispatch(events[calls[j]["ev"]])

\* a navigation recorded at 400 ms replayed before a click recorded at 120 ms
C7_Witness ==
    /\ playPc = "returned"
    /\ Len(events) = 2
    /\ events[1]["timestamp"] > events[2]["timestamp"]
    /\ Len(calls) = 2
    /\ calls[1]["op"] = "goto" /\ calls[2]["op"] = "click_by_id"

\* the parts of a target: the tag, and what follows the first "#" or "."
FirstIndex(s, seps) == CHOOSE i \in 1..Len(s) : s[i] \in seps /\ \A j \in 1..(i - 1) : s[j] \notin seps
UpTo(s, seps) ==
    IF \E i \in 1..Len(s) : s[i] \in seps THEN SubSeq(s, 1, FirstIndex(s, seps) - 1) ELSE s
After(s, sep) == SubSeq(s, FirstIndex(s, {sep}) + 1, Len(s))
TagName(t) == UpTo(t, {"#", "."})
IdComponent(t) == UpTo(After(t, "#"), {"#", "."})
ClassComponent(t) == UpTo(After(t, "."), {"."})

\* C8: click targeting.  A click is replayed by exactly one call: by id when
\* the target has a "#id" part, else by class when it has a ".class" part,
\* else by text when the event carries a non-empty text, else by tag name.
C8_ClickFallback ==
    Replaying =>
        \A j \in 1..Len(calls) :
            LET e == events[calls[j]["ev"]]
                t == e["target"]
            IN  e["type"] = "click" =>
                  Bare(calls[j]) =
                     IF Contains(t, "#")
                     THEN [op |-> "click_by_id", arg |-> IdComponent(t)]
                     ELSE IF Contains(t, ".")
                     THEN [op |-> "click_by_class", arg |-> ClassComponent(t)]
                     ELSE IF Has(e["data"], "text") /\ e["data"]["text"] # ""
                     THEN [op |-> "click_on_text", arg |-> e["data"]["text"]]
                     ELSE [op |-> "click_by_tag", arg |-> TagName(t)]

\* C9: input targeting.  An input event is replayed by exactly one fill call
\* with the recorded value: by id when the target has a "#id" part, else by
\* class when it has a ".class" part, else by label with the tag name; never
\* by a click.
C9_InputFallback ==
    /\ Replaying =>
        \A j \in 1..Len(calls) :
            LET e == events[calls[j]["ev"]]
                t == e["target"]
            IN  e["type"] = "input" =>
                  Bare(calls[j]) =
                     IF Contains(t, "#")
                     THEN [op |-> "fill_by_id", arg |-> IdComponent(t),
                           value |-> e["data"]["value"]]
                     ELSE IF Contains(t, ".")
                     THEN [op |-> "fill_by_class", arg |-> ClassComponent(t),
                           value |-> e["data"]["value"]]
                     ELSE [op |-> "fill_by_label", arg |-> TagName(t),
                           value |-> e["data"]["value"]]
    /\ playPc = "returned" =>
        \A i \in 1..Len(events) :
            events[i]["type"] = "input" => Cardinality(CallsOf(i)) = 1

\* an input on a bare tag filled by label, after an input filled by id
C9_Witness ==
    /\ playPc = "returned"
    /\ Len(events) = 2
    /\ Len(calls) = 2
    /\ calls[1] = [op |-> "fill_by_id", arg |-> <<"s">>, value |-> "hello",
                   ev |-> 1, ok |-> TRUE]
    /\ calls[2] = [op |-> "fill_by_label", arg |-> <<"I">>, value |-> "hello",
                   ev |-> 2, ok |-> TRUE]

\* C10: replay pacing.  A replay of n >= 1 events at a speed s > 0 sleeps
\* 0.5 / s seconds between consecutive events: n - 1 sleeps of 500 / s ms,
\* taken whether or not the action before succeeded.
C10_ReplayPacing ==
    (playPc = "returned" /\ speed > 0 /\ Len(events) >= 1) =>
        /\ Len(delays) = Len(events) - 1
        /\ \A d \in 1..Len(delays) : delays[d] = 500 \div speed

\* C11: non-positive speed.  A replay at a speed <= 0 on a connected adapter
\* takes no delay, never goes to the sleep or to the division by the speed
\* (so the only failures caught are those of the events' own actions), does
\* not raise, and dispatches the action of every event in the order of the
\* trace.
C11_NonPositiveSpeed ==
    (speed <= 0 /\ connected /\ playPc # "idle") =>
        /\ playPc # "raised"
        /\ delays = <<>>
        /\ \A w \in 1..Len(warnings) :
              /\ warnings[w]["error"] = "DriverError"
              /\ \E j \in CallsOf(warnings[w]["ev"]) : ~calls[j]["ok"]
        /\ \A j, k \in 1..Len(calls) : j < k => calls[j]["ev"] < calls[k]["ev"]
        /\ \A j \in 1..Len(calls) : Bare(calls[j]) = Dispatch(events[calls[j]["ev"]])
        /\ \A i \in 1..(evIdx - 1) : HasAction(events[i]) => CallsOf(i) # {}
        /\ playPc = "returned" => evIdx = Len(events) + 1

\* a replay of two actions at speed 0 that returned without a warning
C11_Witness ==
    /\ playPc = "returned"
    /\ connected
    /\ speed = 0
    /\ Len(events) = 2
    /\ Len(calls) = 2
    /\ calls[1]["ok"] /\ calls[2]["ok"]
    /\ delays = <<>>
    /\ warnings = <<>>

\* a replay at a negative speed, whose first action failed
C11_WitnessNegative ==
    /\ playPc = "returned"
    /\ connected
    /\ speed < 0
    /\ Len(calls) = 2
    /\ ~calls[1]["ok"]
    /\ Len(warnings) = 1

--------------------------------------------------------------------------
(* Claims about recording *)

IsStart(i) == trail[i]["kind"] = "start"
IsStop(i) == trail[i]["kind"] = "stop"
IsAction(i) == trail[i]["kind"] = "action"

\* no stop_recording ran at the positions lo..hi of the trail
NoStopIn(lo, hi) == \A i \in lo..hi : ~IsStop(i)

RECURSIVE RecordsIn(_, _)
\* the records the page made of the user actions at the positions lo..hi
RecordsIn(lo, hi) ==
    IF lo > hi THEN <<>>
    ELSE (IF IsAction(lo) THEN trail[lo]["records"] ELSE <<>>) \o RecordsIn(lo + 1, hi)

\* the start_recording at q came after another with no stop_recording in
\* between, and user actions in between
SecondStart(q) ==
    /\ IsStart(q)
    /\ \E q0 \in 1..(q - 1) :
          /\ IsStart(q0)
          /\ NoStopIn(q0, q)
          /\ \E a \in (q0 + 1)..(q - 1) : IsAction(a)

\* C12: recording idempotence.  When start_recording is called, user actions
\* occur, and start_recording is called again with no stop_recording in
\* between, the next stop_recording returns the records of the actions after
\* the second start_recording and nothing else: no record made before it.
C12_RecordingIdempotence ==
    \A q, s \in 1..Len(trail) :
        (q < s /\ SecondStart(q) /\ IsStop(s) /\ NoStopIn(q, s - 1)
               /\ \A r \in (q + 1)..(s - 1) : ~IsStart(r)) =>
            trail[s]["ret"] = CanonicalEvents(RecordsIn(q + 1, s - 1))

\* start, a click, start again, an input, stop: the result has the input
\* and not the click
C12_Witness ==
    /\ Len(trail) = 5
    /\ IsStart(1) /\ IsAction(2) /\ IsStart(3) /\ IsAction(4) /\ IsStop(5)
    /\ trail[2]["user"] = "click" /\ Len(trail[2]["records"]) = 1
    /\ trail[4]["user"] = "input"
    /\ Len(trail[5]["ret"]) >= 1
    /\ \A k \in 1..Len(trail[5]["ret"]) : trail[5]["ret"][k]["type"] = "input"

\* the step is a stop_recording that ran
StopStep ==
    /\ Len(trail') = Len(trail) + 1
    /\ trail'[Len(trail')]["kind"] = "stop"

\* C13: stop_recording drains and accumulates.  Every stop_recording returns
\* what the adapter had accumulated followed by the content of the in-page
\* buffer in buffer order, keeps that as the accumulated sequence, and leaves
\* the buffer empty; a stop_recording right after another, with no user
\* action in between, returns the same sequence again.
C13_StopDrains ==
    [][StopStep =>
          /\ outcome'["op"] = "stop_recording"
          /\ outcome'["ret"] = recordingEvents \o CanonicalEvents(pspEvents)
          /\ recordingEvents' = outcome'["ret"]
          /\ pspEvents' = <<>>
          /\ (Len(trail) > 0 /\ IsStop(Len(trail))) =>
                outcome'["ret"] = trail[Len(trail)]["ret"]]_vars

\* start, an action, stop, another action, stop: the second result is the
\* first followed by the record of the second action
C13_Witness ==
    /\ Len(trail) = 5
    /\ IsStart(1) /\ IsAction(2) /\ IsStop(3) /\ IsAction(4) /\ IsStop(5)
    /\ Len(trail[3]["ret"]) = 1
    /\ Len(trail[5]["ret"]) = 2
    /\ trail[5]["ret"][1] = trail[3]["ret"][1]
    /\ trail[5]["ret"][2] = CanonicalEvent(trail[4]["records"][1])
    /\ outcome["op"] = "stop_recording" /\ outcome["ret"] = trail[5]["ret"]
    /\ pspEvents = <<>>

\* start, an action, stop, stop: the same one-event sequence twice
C13_WitnessRepeat ==
    /\ Len(trail) = 4
    /\ IsStart(1) /\ IsAction(2) /\ IsStop(3) /\ IsStop(4)
    /\ Len(trail[3]["ret"]) = 1
    /\ trail[4]["ret"] = trail[3]["ret"]

\* C14: additive stop/start cycles.  After start_recording, actions E1,
\* stop_recording, start_recording, actions E2, stop_recording on one
\* adapter, the second stop_recording returns what the first returned (E1)
\* followed by the records of E2.
C14_AdditiveCycles ==
    \A s1, q2, s2 \in 1..Len(trail) :
        (/\ s1 < q2 /\ q2 < s2
         /\ IsStop(s1) /\ IsStart(q2) /\ IsStop(s2)
         /\ \E q1 \in 1..(s1 - 1) : IsStart(q1)
         /\ \A r \in (s1 + 1)..(s2 - 1) : r # q2 => IsAction(r)) =>
            trail[s2]["ret"] =
                trail[s1]["ret"] \o CanonicalEvents(RecordsIn(q2 + 1, s2 - 1))

--------------------------------------------------------------------------
(* Claims about the connection check *)

\* the step is a call of one of the adapter's operations
AdapterCallStep == ops' # ops \/ playPc' # playPc \/ outcome' # outcome

AdapterOperations ==
    {"capture_state", "apply_state", "start_recording", "stop_recording",
     "play_recording"}

NotConnectedError == "RuntimeError: Not connected to a browser"

\* C15: not connected.  capture_state, apply_state, start_recording,
\* stop_recording and play_recording, called while no browser is attached,
\* each fail with the not-connected error, make no driver call, and leave
\* the accumulated events, the recording start time and the page as they
\* were.
C15_NotConnected ==
    [][(~connected /\ AdapterCallStep) =>
          /\ outcome'["op"] \in AdapterOperations
          /\ outcome'["result"] = NotConnectedError
          /\ calls' = <<>>
          /\ playPc' \in {playPc, "raised"}
          /\ UNCHANGED <<recordingVars, recorderVars, pageVars, trail, snap,
                         delays, warnings>>]_vars

\* the state InitLifecycle starts from: one click recorded and returned
C15_Recorded ==
    /\ trail = <<[kind |-> "start"],
                 [kind |-> "action", user |-> "click", records |-> <<RecordedClick>>],
                 [kind |-> "stop", ret |-> <<RecordedClick>>]>>
    /\ recordingEvents = <<RecordedClick>>
    /\ recordingStartTime = 5
    /\ pspStartTime = 5
    /\ clock = 6
    /\ listeners = 1
    /\ pspEvents = <<>>

\* start_recording refused on an adapter that holds a recorded event, over
\* a page whose buffer holds a record
C15_Witness ==
    /\ ~connected
    /\ outcome = [op |-> "start_recording", result |-> NotConnectedError]
    /\ calls = <<>>
    /\ recordingEvents = <<RecordedClick>>
    /\ recordingStartTime = 5
    /\ pspEvents # <<>>
    /\ playPc = "raised"

--------------------------------------------------------------------------
(* Claims about the best-effort extensions of capture_state *)

\* the last operation was a capture_state that got past the connection check
CaptureRan == outcome["op"] = "capture_state" /\ calls # <<>>

\* the driver call op of the last operation failed
CallRaised(op) == \E i \in 1..Len(calls) : calls[i]["op"] = op /\ calls[i]["raised"]

MandatoryParts == {"version", "timestamp", "origin", "storage", "history"}

\* the snapshot the last successful capture_state returned
Returned == captured["state"]

HasExtension(st, name) == Has(st, "extensions") /\ Has(st["extensions"], name)

\* C16: the screenshot is best-effort in capture.  When screenshot_on_capture
\* is set and the driver's screenshot() fails, capture_state still returns a
\* snapshot, with version, timestamp, origin, storage and history and
\* without the screenshot extension.
C16_ScreenshotBestEffort ==
    (CaptureRan /\ screenshotOnCapture /\ CallRaised("screenshot")) =>
        /\ outcome["result"] = "ok"
        /\ MandatoryParts \subseteq DOMAIN Returned
        /\ ~HasExtension(Returned, "screenshot")

\* C17: the vision state is best-effort in capture.  When visual_comparison
\* is set and get_vision_state() fails, capture_state still returns a
\* snapshot, with version, timestamp, origin, storage and history, without
\* the visionState extension, and with the screenshot extension holding the
\* screenshot when one was taken.
C17_VisionBestEffort ==
    (CaptureRan /\ visualComparison /\ CallRaised("get_vision_state")) =>
        /\ outcome["result"] = "ok"
        /\ MandatoryParts \subseteq DOMAIN Returned
        /\ ~HasExtension(Returned, "visionState")
        /\ \A i \in 1..Len(calls) :
              (calls[i]["op"] = "screenshot" /\ calls[i]["ret"] # EmptyBytes) =>
                  /\ HasExtension(Returned, "screenshot")
                  /\ Returned["extensions"]["screenshot"]["data"] = calls[i]["ret"]

\* a capture whose screenshot was taken and whose vision state failed
C17_Witness ==
    /\ CaptureRan /\ visualComparison /\ CallRaised("get_vision_state")
    /\ outcome["result"] = "ok"
    /\ HasExtension(Returned, "screenshot")
    /\ Returned["extensions"]["screenshot"]["data"] \in Images
    /\ DOMAIN Returned["extensions"] = {"screenshot"}

--------------------------------------------------------------------------
(* Claims about _compare_screenshots *)

C18_WitnessDiffer ==
    /\ cmpPc = "done"
    /\ Decodable(cmpReference) /\ Decodable(cmpCurrent)
    /\ cmpResult < SimDen
    /\ cmpResult > 0

RECURSIVE TrueSumSq(_, _, _)
\* the sum over the channel values of (ref - cur)^2, without wrap-around
TrueSumSq(ref, cur, n) ==
    IF n = 0 THEN 0
    ELSE (ref[n] - cur[n]) * (ref[n] - cur[n]) + TrueSumSq(ref, cur, n - 1)

\* C19: similarity formula.  For two decodable same-size 8-bit images
\* _compare_screenshots returns 1 - mse / 255^2 with mse the mean of the true
\* squared differences: 0.0 for an all-0 image against an all-255 image, and
\* 1.0 only for images equal in every channel value.
C19_SimilarityFormula ==
    (cmpPc = "done" /\ Decodable(cmpReference) /\ Decodable(cmpCurrent)) =>
        /\ cmpResult = SimDen - TrueSumSq(cmpReference[2], cmpCurrent[2], ImgLen)
        /\ cmpResult = SimDen => cmpCurrent = cmpReference

--------------------------------------------------------------------------
(* Claims about the restore of an empty snapshot *)

\* the step is an apply_state that got past the connection check
ApplyStep ==
    /\ ops' = ops + 1
    /\ outcome'["op"] = "apply_state"
    /\ Has(outcome', "state")

\* the URL get_current_url returned to the apply_state of the step
RestoreUrl ==
    calls'[CHOOSE i \in 1..Len(calls') : calls'[i]["op"] = "get_current_url"]["ret"]

\* what the session state st holds in the storage area for the origin of url
EntriesFor(st, area, url) ==
    Get(Get(Get(st, "storage", EmptyDict), area, EmptyDict), UrlNetloc(url), EmptyDict)

\* st has no cookie, and no localStorage or sessionStorage entry for the
\* origin of url
EmptyFor(st, url) ==
    /\ HasCookieList(st) => st["storage"]["cookies"] = <<>>
    /\ EntriesFor(st, "localStorage", url) = EmptyDict
    /\ EntriesFor(st, "sessionStorage", url) = EmptyDict

\* C20: the restore of an empty snapshot is a pure navigation.  An
\* apply_state of a snapshot with no cookies and no localStorage or
\* sessionStorage entries for the restore-time origin completes without error
\* and leaves the page's cookie jar, localStorage and sessionStorage as they
\* were before the call.
C20_EmptyRestore ==
    [][(ApplyStep /\ EmptyFor(outcome'["state"], RestoreUrl)) =>
          /\ outcome'["result"] = "ok"
          /\ pageCookies' = pageCookies
          /\ pageLocal' = pageLocal
          /\ pageSession' = pageSession]_vars

--------------------------------------------------------------------------
(* Claims about the replay of navigation events *)

\* C21: navigation replay.  For a navigation event play_recording calls goto
\* with the event's url, once, exactly when the event's data carries a url;
\* for a navigation event without a url it makes no driver call at all.
C21_NavigationReplay ==
    Replaying =>
        \A i \in 1..Len(events) :
            (i < evIdx /\ events[i]["type"] = "navigation") =>
                IF Has(events[i]["data"], "url")
                THEN /\ Cardinality(CallsOf(i)) = 1
                     /\ \A j \in CallsOf(i) :
                           Bare(calls[j]) = [op |-> "goto", arg |-> events[i]["data"]["url"]]
                ELSE CallsOf(i) = {}

\* a navigation without a url, then one with a url: one goto in all
C21_Witness ==
    /\ playPc = "returned"
    /\ Len(events) = 2
    /\ events[1]["type"] = "navigation" /\ ~Has(events[1]["data"], "url")
    /\ events[2]["type"] = "navigation" /\ Has(events[2]["data"], "url")
    /\ Len(calls) = 1
    /\ calls[1]["op"] = "goto" /\ calls[1]["arg"] = HttpsB /\ calls[1]["ev"] = 2
    /\ pageUrl = HttpsB

--------------------------------------------------------------------------
(* Claims about the shape of a captured snapshot *)

\* a capture_state has returned a snapshot
SnapshotReturned == Has(captured, "state")

\* the browser origins of the URLs whose snapshots carry this origin field
OriginsNamedBy(field) == { BrowserOrigin(u) : u \in { v \in URLs \cup {BlankUrl} : UrlNetloc(v) = field } }

\* the storage maps of a snapshot have one key, the snapshot's origin field,
\* and its history is the one current entry
KeyedByOriginField(st) ==
    /\ DOMAIN st["storage"]["localStorage"] = {st["origin"]}
    /\ DOMAIN st["storage"]["sessionStorage"] = {st["origin"]}
    /\ Len(st["history"]["entries"]) = 1
    /\ st["history"]["entries"][1]["url"] = st["history"]["currentUrl"]
    /\ st["history"]["currentIndex"] = 0

\* every returned snapshot is keyed by its origin field and has the one
\* history entry (the part of C22 that does not depend on what the origin
\* field says)
C22_SingleKeySingleEntry == SnapshotReturned => KeyedByOriginField(Returned)

\* C22: snapshot shape.  Every snapshot returned by capture_state has
\* storage.localStorage and storage.sessionStorage each with exactly one
\* key, equal to the snapshot's origin field; the origin field is the origin
\* (scheme, host and port) of history.currentUrl, so it names that origin
\* and no other; history.entries has exactly one entry, whose url is
\* history.currentUrl, and history.currentIndex is 0.
C22_SnapshotShape ==
    SnapshotReturned =>
        /\ KeyedByOriginField(Returned)
        /\ Returned["history"]["currentUrl"] = captured["url"]
        /\ OriginsNamedBy(Returned["origin"]) = {BrowserOrigin(Returned["history"]["currentUrl"])}

--------------------------------------------------------------------------
(* Claims about what capture_state leaves alone *)

\* a step in which capture_state runs on a connected adapter
CaptureStep ==
    /\ connected
    /\ ops' = ops + 1
    /\ outcome'["op"] = "capture_state"

WritingCalls == {"goto", "add_cookie", "click", "fill"}

\* C23: capture is read-only and one round trip.  capture_state issues
\* exactly one evaluate call and no goto, add_cookie, click or fill call,
\* leaves the page's URL, cookie jar and both storage areas unchanged, and
\* leaves the adapter's accumulated recording events unchanged.
C23_CaptureReadOnly ==
    [][CaptureStep =>
          /\ Cardinality({ i \in 1..Len(calls') : calls'[i]["op"] = "evaluate" }) = 1
          /\ \A i \in 1..Len(calls') : calls'[i]["op"] \notin WritingCalls
          /\ UNCHANGED <<pageUrl, pageCookies, pageLocal, pageSession>>
          /\ UNCHANGED recordingEvents]_vars

\* a capture of a page with cookies and storage, by an adapter that holds
\* recorded events
C23_Witness ==
    /\ outcome = [op |-> "capture_state", result |-> "ok"]
    /\ SnapshotReturned
    /\ \E i \in 1..Len(calls) : calls[i]["op"] = "evaluate"
    /\ recordingEvents # <<>>
    /\ pageCookies # <<>>
    /\ captured["local"] # EmptyDict
    /\ pageLocal[BrowserOrigin(pageUrl)] = captured["local"]

--------------------------------------------------------------------------
(* Claims about the listeners start_recording installs *)

\* the start_recording at q is the last one before position p of the trail
LastStartBefore(q, p) == q < p /\ IsStart(q) /\ \A r \in (q + 1)..(p - 1) : ~IsStart(r)

\* C24: listeners are installed once.  After any number of start_recording
\* calls on the same page, with or without stop_recording in between, one
\* user action (a click, an input, a pushState, a popstate) after the last
\* start_recording appends exactly one record to the in-page buffer, and
\* the next stop_recording returns one event for each such action.
C24_ListenersOnce ==
    /\ \A a \in 1..Len(trail) :
          (IsAction(a) /\ \E q \in 1..(a - 1) : IsStart(q)) =>
              Len(trail[a]["records"]) = 1
    /\ \A q, s \in 1..Len(trail) :
          (IsStop(s) /\ LastStartBefore(q, s) /\ NoStopIn(q, s - 1)) =>
              Len(trail[s]["ret"]) = Cardinality({ a \in (q + 1)..(s - 1) : IsAction(a) })

--------------------------------------------------------------------------
(* Claims about the timestamps of recorded events *)

\* the timestamps of a sequence of events are non-negative and never go down
TimestampsOrdered(evs) ==
    /\ \A k \in 1..Len(evs) : evs[k]["timestamp"] >= 0
    /\ \A k, l \in 1..Len(evs) : k < l => evs[k]["timestamp"] <= evs[l]["timestamp"]

\* the last operation was a stop_recording that returned
StopReturned == outcome["op"] = "stop_recording" /\ outcome["result"] = "ok"

\* C25: timestamps.  In every sequence stop_recording returns, after any
\* interleaving of start_recording, user actions and stop_recording, each
\* event's timestamp is non-negative and the timestamps are non-decreasing
\* along the sequence; each is the time of the event less the epoch of the
\* most recent start_recording, so none is past the time elapsed since then.
C25_Timestamps ==
    /\ \A s \in 1..Len(trail) : IsStop(s) => TimestampsOrdered(trail[s]["ret"])
    /\ StopReturned =>
          \A k \in 1..Len(outcome["ret"]) :
              outcome["ret"][k]["timestamp"] <= clock - recordingStartTime

\* a stop_recording that returned the events of two user actions made at
\* different times after a second start_recording
C25_Witness ==
    /\ StopReturned
    /\ Len(outcome["ret"]) >= 2
    /\ outcome["ret"][1]["timestamp"] = 1
    /\ outcome["ret"][Len(outcome["ret"])]["timestamp"] = 2
    /\ Cardinality({ q \in 1..Len(trail) : IsStart(q) }) = 2

--------------------------------------------------------------------------
(* Two adapters, each connected to a page of its own *)

\* an attribute that the class would hold, one list for every instance
InstanceEvents_ClassLevel(own, other) == other

\* __init__ sets self._recording_events = [] on the instance: an adapter
\* reads its own list, whatever another adapter did to its list
InstanceEvents(own, other) == own

\* the adapter taking the steps, its page and its caller, as one value
AdapterRecord(id) ==
    [id |-> id,
     events |-> events, speed |-> speed, evIdx |-> evIdx, playPc |-> playPc,
     delays |-> delays, warnings |-> warnings,
     pageId |-> pageId, pageUrl |-> pageUrl, pageCookies |-> pageCookies,
     pageLocal |-> pageLocal, pageSession |-> pageSession,
     calls |-> calls, connected |-> connected,
     visualComparison |-> visualComparison,
     screenshotOnCapture |-> screenshotOnCapture,
     outcome |-> outcome, ops |-> ops, snap |-> snap, captured |-> captured,
     recordingEvents |-> recordingEvents, recordingStartTime |-> recordingStartTime,
     held |-> held, pspEvents |-> pspEvents, pspStartTime |-> pspStartTime,
     listeners |-> listeners, trail |-> trail]

\* the id of the adapter taking the steps
Active == 3 - peer["id"]

\* The scheduler turns to the other adapter: the next steps are its steps,
\* on its attributes (self.browser, self._recording_events, ...), its page
\* and its caller's values.
Switch ==
    /\ peer # NoPeer
    /\ peer' = AdapterRecord(Active)
    /\ events' = peer["events"]
    /\ speed' = peer["speed"]
    /\ evIdx' = peer["evIdx"]
    /\ playPc' = peer["playPc"]
    /\ delays' = peer["delays"]
    /\ warnings' = peer["warnings"]
    /\ pageId' = peer["pageId"]
    /\ pageUrl' = peer["pageUrl"]
    /\ pageCookies' = peer["pageCookies"]
    /\ pageLocal' = peer["pageLocal"]
    /\ pageSession' = peer["pageSession"]
    /\ calls' = peer["calls"]
    /\ connected' = peer["connected"]
    /\ visualComparison' = peer["visualComparison"]
    /\ screenshotOnCapture' = peer["screenshotOnCapture"]
    /\ outcome' = peer["outcome"]
    /\ ops' = peer["ops"]
    /\ snap' = peer["snap"]
    /\ captured' = peer["captured"]
    /\ recordingEvents' = InstanceEvents(peer["recordingEvents"], recordingEvents)
    /\ recordingStartTime' = peer["recordingStartTime"]
    /\ held' = peer["held"]
    /\ pspEvents' = peer["pspEvents"]
    /\ pspStartTime' = peer["pspStartTime"]
    /\ listeners' = peer["listeners"]
    /\ trail' = peer["trail"]
    /\ UNCHANGED <<ckVars, cmpVars, clientVars, redirects, clock>>

\* the caller's calls and the user's actions that a trail and the counters
\* of one adapter show
CallsOfAdapter(a) ==
    a["ops"] + Len(a["trail"]) + (IF a["playPc"] = "idle" THEN 0 ELSE 1)

\* the most calls and user actions of the two adapters together
MaxJointCalls == 3

JointCalls == CallsOfAdapter(AdapterRecord(Active)) + CallsOfAdapter(peer)

JointCapture == JointCalls < MaxJointCalls /\ CaptureState
JointApply == JointCalls < MaxJointCalls /\ Apply
JointStart == JointCalls < MaxJointCalls /\ StartRecording
JointUserAction == JointCalls < MaxJointCalls /\ UserAction
JointStop == JointCalls < MaxJointCalls /\ StopRecording
JointPlay == JointCalls < MaxJointCalls /\ PlayCall

\* Adapter 1 is connected to the page at https://a.test, with a cookie and
\* a stored key, and is to replay a navigation; adapter 2 is connected to
\* the page at https://b.test and is to replay a click.
InitTwoAdapters ==
    /\ CookieIdle
    /\ CompareIdle
    /\ ClientIdle
    /\ RecordingIdle
    /\ events = <<NavigationEvent(PushStateTarget, [url |-> HttpA])>>
    /\ speed = 1
    /\ evIdx = 0
    /\ playPc = "idle"
    /\ delays = <<>>
    /\ warnings = <<>>
    /\ pageId = 1
    /\ pageUrl = HttpsA
    /\ pageCookies = <<JarCookieSid>>
    /\ pageLocal = [o \in Origins |->
                      IF o = BrowserOrigin(HttpsA) THEN ("k" :> "v") ELSE EmptyDict]
    /\ pageSession = FreshStorage
    /\ redirects = [u \in URLs |-> u]
    /\ clock = 5
    /\ calls = <<>>
    /\ connected = TRUE
    /\ visualComparison = FALSE
    /\ screenshotOnCapture = FALSE
    /\ outcome = NoOutcome
    /\ ops = 0
    /\ snap = EmptyDict
    /\ captured = EmptyDict
    /\ peer = [AdapterRecord(2) EXCEPT
                  !["events"] = <<ClickEvent(Str3("B", "#", "s"), [x |-> 1, y |-> 2, text |-> "Go"])>>,
                  !["pageId"] = 2,
                  !["pageUrl"] = HttpsB,
                  !["pageCookies"] = <<>>,
                  !["pageLocal"] = FreshStorage]

NextTwoAdapters ==
    \/ Switch
    \/ JointCapture
    \/ JointApply
    \/ JointStart
    \/ JointUserAction
    \/ JointStop
    \/ JointPlay
    \/ PlayEvent
    \/ PlayReturn

\* two adapters and two pages, their steps interleaved in every order
SpecTwoAdapters == InitTwoAdapters /\ [][NextTwoAdapters]_vars

--------------------------------------------------------------------------
(* Claims about two adapters *)

\* the step hands the turn to the other adapter
SwitchStep == peer' # NoPeer /\ peer'["id"] # peer["id"]

--------------------------------------------------------------------------
(* Claims about the list stop_recording returns *)

\* C27: the returned trace is a finalized value.  The contents of a
\* sequence returned by one stop_recording call are not changed by any
\* later start_recording or stop_recording call on the same adapter: every
\* sequence the caller holds still has the contents it was returned with.
C27_ReturnedFinal == \A i \in 1..Len(held) : held[i]["now"] = held[i]["ret"]

--------------------------------------------------------------------------
(* PSPClient (packages/sdk-python/psp_sdk/client.py): the session cache *)

\* the session ids a caller names
SessionIds == {"s1", "s2"}

\* the most create_session, get_session and delete_session calls of a run
MaxClientOps == 4

\* every frame of the client's steps: the adapter is not in use
ClientFrame == UNCHANGED <<ckVars, cmpVars, peer, playVars, pageVars, redirects, clock, calls, adapterVars, outcome, ops, snap, captured, recordingVars, recorderVars, trail>>

\* PSPSession(session_id=..., client=self): one more object, told apart
\* from every object constructed before by its serial number
NewSession(id) == <<id, objects + 1>>

\* every PSPSession object constructed so far for the session id
ObjectsOf(id) == { <<id, k>> : k \in 1..objects }

\* How self.session.request(...) and response.json() end:
\*   "ok"          a status below 400 and a JSON body;
\*   "api_error"   a status of 400 or more: _request raises PSPError (67);
\*   "client_error" aiohttp.ClientError: _request raises PSPError (71);
\*   "other_error" any other exception (asyncio.TimeoutError, a body that
\*                 is not JSON): it leaves _request as it is.
Responses == {"ok", "api_error", "client_error", "other_error"}

\* _request: what the caller of _request sees for a response
RequestResult(resp) ==
    IF resp = "ok" THEN "ok"
    ELSE IF resp \in {"api_error", "client_error"} THEN "PSPError"
    ELSE "raised"

\* the responses the server and the network can give a request about id
ResponsesFor(id) == IF id \in server THEN {"ok", "client_error", "other_error"} ELSE {"api_error", "client_error", "other_error"}

\* async with PSPClient() as client: __aenter__ sets self.session
Enter ==
    /\ ~clientSession
    /\ clientSession' = TRUE
    /\ UNCHANGED <<sessions, server, tasks, clientOutcome, stale, objects, clientOps>>
    /\ ClientFrame

\* the server loses a session by itself (it expires, or another client
\* deletes it)
ServerDrop ==
    /\ \E id \in server : server' = server \ {id}
    /\ UNCHANGED <<clientSession, sessions, tasks, clientOutcome, stale, objects, clientOps>>
    /\ ClientFrame

\* create_session: POST /sessions, then a PSPSession for the id the server
\* gave is put in the cache
CreateSession ==
    /\ clientOps < MaxClientOps
    /\ clientOps' = clientOps + 1
    /\ IF ~clientSession
       THEN /\ clientOutcome' = [op |-> "create_session", n |-> clientOps + 1,
                                 result |-> "PSPError"]
            /\ UNCHANGED <<sessions, server, objects>>
       ELSE \E id \in SessionIds \ server :
               /\ server' = server \cup {id}
               /\ objects' = objects + 1
               /\ sessions' = (id :> NewSession(id)) @@ sessions
               /\ clientOutcome' = [op |-> "create_session", n |-> clientOps + 1,
                                    result |-> "ok", id |-> id, obj |-> NewSession(id)]
    /\ UNCHANGED <<clientSession, tasks, stale>>
    /\ ClientFrame

\* get_session up to its await: a cached session is returned at once;
\* otherwise _request raises PSPError on a client that was not entered (the
\* message has no "not found", so it is raised again), or sends GET
GetSessionCall ==
    /\ clientOps < MaxClientOps
    /\ clientOps' = clientOps + 1
    /\ \E id \in SessionIds :
          IF id \in DOMAIN sessions
          THEN /\ clientOutcome' = [op |-> "get_session", n |-> clientOps + 1,
                                    result |-> "ok", id |-> id, obj |-> sessions[id],
                                    queried |-> FALSE]
               /\ UNCHANGED tasks
          ELSE IF ~clientSession
          THEN /\ clientOutcome' = [op |-> "get_session", n |-> clientOps + 1,
                                    result |-> "PSPError", id |-> id]
               /\ UNCHANGED tasks
          ELSE /\ tasks' = tasks \cup {[op |-> "get_session", id |-> id, n |-> clientOps + 1]}
               /\ UNCHANGED clientOutcome
    /\ UNCHANGED <<clientSession, sessions, server, stale, objects>>
    /\ ClientFrame

\* get_session from the response on: a new PSPSession is cached and
\* returned; a PSPError becomes SessionNotFoundError when its message has
\* "not found" in it and is raised again otherwise
GetSessionResponse ==
    /\ \E t \in tasks, notFoundText \in BOOLEAN :
          /\ t["op"] = "get_session"
          /\ tasks' = tasks \ {t}
          /\ \E resp \in ResponsesFor(t["id"]) :
                IF RequestResult(resp) = "ok"
                THEN /\ ~notFoundText
                     /\ objects' = objects + 1
                     /\ sessions' = (t["id"] :> NewSession(t["id"])) @@ sessions
                     /\ clientOutcome' = [op |-> "get_session", n |-> t["n"],
                                          result |-> "ok", id |-> t["id"],
                                          obj |-> NewSession(t["id"]), queried |-> TRUE]
                ELSE /\ (RequestResult(resp) = "raised") => ~notFoundText
                     /\ clientOutcome' = [op |-> "get_session", n |-> t["n"],
                                          result |-> IF RequestResult(resp) = "raised"
                                                     THEN "raised"
                                                     ELSE IF notFoundText
                                                     THEN "SessionNotFoundError"
                                                     ELSE "PSPError",
                                          id |-> t["id"]]
                     /\ UNCHANGED <<sessions, objects>>
    /\ UNCHANGED <<clientSession, server, stale, clientOps>>
    /\ ClientFrame

\* a delete_session that returns True and leaves the cache as it is
DeleteFromCache_Keep(cache, id) == cache

\* if session_id in self._sessions: del self._sessions[session_id]
DeleteFromCache(cache, id) == Restrict(cache, DOMAIN cache \ {id})

\* delete_session up to its await: on a client that was not entered
\* _request raises PSPError before it sends anything, and delete_session
\* returns False; otherwise DELETE is sent
DeleteSessionCall ==
    /\ clientOps < MaxClientOps
    /\ clientOps' = clientOps + 1
    /\ \E id \in SessionIds :
          IF ~clientSession
          THEN /\ clientOutcome' = [op |-> "delete_session", n |-> clientOps + 1,
                                    result |-> "returned", ret |-> FALSE, id |-> id,
                                    request |-> "PSPError"]
               /\ UNCHANGED tasks
          ELSE /\ tasks' = tasks \cup {[op |-> "delete_session", id |-> id, n |-> clientOps + 1]}
               /\ UNCHANGED clientOutcome
    /\ UNCHANGED <<clientSession, sessions, server, stale, objects>>
    /\ ClientFrame

\* delete_session from the response on.  The server deletes the session
\* when it answers "ok"; when the connection fails it may have deleted it
\* or not.
DeleteSessionResponse ==
    /\ \E t \in tasks :
          /\ t["op"] = "delete_session"
          /\ tasks' = tasks \ {t}
          /\ \E resp \in ResponsesFor(t["id"]) :
                LET request == RequestResult(resp)
                IN  /\ IF request = "ok"
                       THEN /\ server' = server \ {t["id"]}
                            /\ sessions' = DeleteFromCache(sessions, t["id"])
                            /\ stale' = stale \cup ObjectsOf(t["id"])
                            /\ clientOutcome' = [op |-> "delete_session", n |-> t["n"],
                                                 result |-> "returned", ret |-> TRUE,
                                                 id |-> t["id"], request |-> request]
                       ELSE /\ server' \in {server, server \ {t["id"]}}
                            /\ (resp = "api_error") => server' = server
                            /\ UNCHANGED <<sessions, stale>>
                            /\ clientOutcome' =
                                  IF request = "PSPError"
                                  THEN [op |-> "delete_session", n |-> t["n"],
                                        result |-> "returned", ret |-> FALSE,
                                        id |-> t["id"], request |-> request]
                                  ELSE [op |-> "delete_session", n |-> t["n"],
                                        result |-> "raised", id |-> t["id"],
                                        request |-> request]
    /\ UNCHANGED <<clientSession, objects, clientOps>>
    /\ ClientFrame

\* a client that was constructed, and a server that has a session or none
InitClient ==
    /\ AdapterIdle
    /\ CookieIdle
    /\ CompareIdle
    /\ peer = NoPeer
    /\ clientSession = FALSE
    /\ sessions = EmptyDict
    /\ server \in {{}, {"s1"}}
    /\ tasks = {}
    /\ clientOutcome = NoOutcome
    /\ stale = {}
    /\ objects = 0
    /\ clientOps = 0

NextClient ==
    \/ Enter
    \/ ServerDrop
    \/ CreateSession
    \/ GetSessionCall
    \/ GetSessionResponse
    \/ DeleteSessionCall
    \/ DeleteSessionResponse

\* the calls of one PSPClient, their requests in flight together
SpecClient == InitClient /\ [][NextClient]_vars

--------------------------------------------------------------------------
(* Claims about the client's session cache *)

\* the step is the return of a client call
ClientReturnStep(op) == clientOutcome' # clientOutcome /\ clientOutcome'["op"] = op

\* C28: cache coherence.  delete_session(id) returns True and removes id
\* (and nothing else) from the cache when the DELETE request succeeds; it
\* returns False, without raising and with the cache unchanged, when the
\* request fails with a PSPError, a client that was not entered included.
\* So once a delete_session(id) has returned True, get_session(id) never
\* returns, without asking the server, an object that was cached for id
\* before.
C28_CacheCoherence ==
    [][/\ (ClientReturnStep("delete_session") /\ clientOutcome'["request"] = "ok") =>
             /\ clientOutcome'["result"] = "returned" /\ clientOutcome'["ret"] = TRUE
             /\ DOMAIN sessions' = DOMAIN sessions \ {clientOutcome'["id"]}
             /\ \A k \in DOMAIN sessions' : sessions'[k] = sessions[k]
       /\ (ClientReturnStep("delete_session") /\ clientOutcome'["request"] = "PSPError") =>
             /\ clientOutcome'["result"] = "returned" /\ clientOutcome'["ret"] = FALSE
             /\ sessions' = sessions
       /\ (ClientReturnStep("get_session") /\ clientOutcome'["result"] = "ok"
              /\ ~clientOutcome'["queried"]) =>
             clientOutcome'["obj"] \notin stale]_vars

\* a delete_session that returned True for a cached session, after which
\* get_session asked the server and was told the session is not there
C28_Witness ==
    /\ clientOutcome["op"] = "get_session"
    /\ clientOutcome["result"] = "SessionNotFoundError"
    /\ clientOutcome["id"] = "s1"
    /\ <<"s1", 1>> \in stale
    /\ "s1" \notin DOMAIN sessions
    /\ "s1" \notin server

\* a delete_session that returned False: the request failed with a PSPError
\* and the cached session stayed
C28_WitnessFailed ==
    /\ clientOutcome["op"] = "delete_session" /\ clientOutcome["result"] = "returned"
    /\ clientOutcome["ret"] = FALSE /\ clientOutcome["request"] = "PSPError"
    /\ clientOutcome["id"] \in DOMAIN sessions

==========================================================================
